---- MODULE Spec2Model ----
(***************************************************************************)
(* A model of the Braille canvas (color_plot/drawille.rs) and of the chart *)
(* layer built on it (color_plot/textplots/mod.rs).                        *)
(*                                                                         *)
(* A character is modelled by its code point, a colour by its name, and a  *)
(* rendered string by the sequence of its glyphs: a glyph is a code point  *)
(* together with the foreground colour it is wrapped in ("none" when the   *)
(* glyph is pushed bare).                                                  *)
(***************************************************************************)
EXTENDS Integers, Sequences, FiniteSets, TLC

VARIABLES canvas, hist, chart, out

vars == <<canvas, hist, chart, out>>

-----------------------------------------------------------------------------
(* Bounds of the model.                                                    *)

\* largest dot column / dot row handed to a Canvas operation
MaxX == 2
MaxY == 4
\* number of Canvas operations applied to one Canvas
MaxOps == 2

Dots == (0 .. MaxX) \X (0 .. MaxY)
\* the inputs the operations are tried with
Colors == {"BrightRed", "Cyan"}
\* the endpoints line and line_colored are called with: the corners of the
\* dot range, which give the degenerate, horizontal, vertical and diagonal
\* lines in both directions
LineEnds == {0, MaxX} \X {0, MaxY}
\* ... together with the one-dot line at every dot
LinePairs == (LineEnds \X LineEnds) \cup {<<d, d>> : d \in Dots}
Letters == {65}
Texts == {<<65, 66>>}
TextWidths == {0, 2}
\* Canvas::new(w, h): one canvas that every touched cell outgrows, one whose
\* nominal width no touched cell reaches
Sizes == {<<0, 0>>, <<MaxX + 2, 0>>}

-----------------------------------------------------------------------------
(* Machine integers.                                                       *)

\* `as u16`.  The 32-bit casts (`as u32`, `as i32`, `as usize`) are the
\* identity on every value below 2^31, which is all the model hands them.
U16(v) == v % 65536

Max(a, b) == IF a >= b THEN a ELSE b
Min(a, b) == IF a <= b THEN a ELSE b

\* u32 products.  A product of two u32 values can pass 2^31, so it is kept as
\* its two 16-bit halves <<high, low>>; the factors and divisors handed to
\* these operators are all below 2^30.

\* the 16-bit halves of a * b for a, b < 2^16
Mul16(a, b) ==
    LET u == (a \div 256) * b
        v == (a % 256) * b
        w == (u % 256) * 256 + v
    IN  <<(u \div 256) + (w \div 65536), w % 65536>>

\* a.wrapping_mul(b): the low 32 bits of the product
wrapping_mul(a, b) ==
    LET ah == a \div 65536
        al == a % 65536
        bh == b \div 65536
        bl == b % 65536
        ll == Mul16(al, bl)
    IN  <<(ll[1] + Mul16(ah, bl)[2] + Mul16(al, bh)[2]) % 65536, ll[2]>>

\* a.checked_mul(b).is_none(): a * b > u32::MAX = 2 * (2^31 - 1) + 1, which
\* takes a > 2 when b < 2^30
mul_overflows(a, b) ==
    /\ a > 2
    /\ b > 2 * (2147483647 \div a) + (2 * (2147483647 % a) + 1) \div a

\* p / r for the u32 p = <<high, low>>
DivU32(p, r) ==
    LET h == p[1] * 32768 + (p[2] \div 2)
    IN  2 * (h \div r) + (2 * (h % r) + (p[2] % 2)) \div r

\* (a * b) / r in u32 arithmetic with the product wrapped to 32 bits
MulDiv(a, b, r) ==
    IF a = 0 \/ b <= 2147483647 \div a
    THEN (a * b) \div r
    ELSE DivU32(wrapping_mul(a, b), r)

-----------------------------------------------------------------------------
(* drawille.rs: the Canvas.                                                *)

PIXEL_MAP == <<<<1, 8>>, <<2, 16>>, <<4, 32>>, <<64, 128>>>>

\* PIXEL_MAP[y as usize % 4][x as usize % 2]
Pixel(x, y) == PIXEL_MAP[(y % 4) + 1][(x % 2) + 1]

\* b is a single bit: m & b != 0, m | b, m & !b, m ^ b
BitTest(m, b) == (m \div b) % 2 = 1
BitOr(m, b) == IF BitTest(m, b) THEN m ELSE m + b
BitClear(m, b) == IF BitTest(m, b) THEN m - b ELSE m
BitXor(m, b) == IF BitTest(m, b) THEN m - b ELSE m + b

\* (0, ' ', false, PixelColor::White)
DefaultCell == [mask |-> 0, ch |-> 32, colored |-> FALSE, color |-> "White"]

\* ((x / 2) as u16, (y / 4) as u16)
CellKey(x, y) == <<U16(x \div 2), U16(y \div 4)>>

\* self.chars.entry(key).or_insert(default), read side
Entry(c, k) == IF k \in DOMAIN c.chars THEN c.chars[k] ELSE DefaultCell

\* self.chars.entry(key).or_insert(default), followed by the write of cell
Put(c, k, cell) ==
    IF k \in DOMAIN c.chars
    THEN [c EXCEPT !.chars[k] = cell]
    ELSE [c EXCEPT !.chars = (k :> cell) @@ c.chars]

\* F of the value of v: v is evaluated first, then F is applied to its
\* value.  The loops below are written with it so that every iteration works
\* on the finished canvas of the iterations before it.
Bind(v, F(_)) == CHOOSE r \in {F(a) : a \in {v}} : TRUE

Canvas_new(width, height) ==
    [chars |-> <<>>, width |-> U16(width \div 2), height |-> U16(height \div 4)]

clear(c) == [c EXCEPT !.chars = <<>>]

\* set that assigns the bit to the mask instead of or-ing it in
set_assign(c, x, y) ==
    Put(c, CellKey(x, y), [mask |-> Pixel(x, y), ch |-> 32,
                           colored |-> FALSE, color |-> "White"])

\* set written with `^=` instead of `|=`
set_xor(c, x, y) ==
    LET k == CellKey(x, y)
        a == Entry(c, k)
    IN  Put(c, k, [mask |-> BitXor(a.mask, Pixel(x, y)), ch |-> 32,
                   colored |-> FALSE, color |-> "White"])

\* set that leaves the cell's character, flag and colour as they are
set_merge(c, x, y) ==
    LET k == CellKey(x, y)
        a == Entry(c, k)
    IN  Put(c, k, [a EXCEPT !.mask = BitOr(a.mask, Pixel(x, y))])

set(c, x, y) ==
    LET k == CellKey(x, y)
        a == Entry(c, k)
    IN  Put(c, k, [mask |-> BitOr(a.mask, Pixel(x, y)), ch |-> 32,
                   colored |-> FALSE, color |-> "White"])

set_colored(c, x, y, color) ==
    LET k == CellKey(x, y)
        a == Entry(c, k)
    IN  Put(c, k, [mask |-> BitOr(a.mask, Pixel(x, y)), ch |-> 32,
                   colored |-> TRUE, color |-> color])

set_char(c, x, y, ch) ==
    Put(c, CellKey(x, y),
        [mask |-> 0, ch |-> ch, colored |-> FALSE, color |-> "White"])

\* for (i, c) in text.chars().enumerate(): stop at the first w > max_width
RECURSIVE text_from(_, _, _, _, _, _)
text_from(c, x, y, max_width, str, i) ==
    IF i > Len(str) \/ (i - 1) * 2 > max_width
    THEN c
    ELSE text_from(set_char(c, x + (i - 1) * 2, y, str[i]),
                   x, y, max_width, str, i + 1)

text(c, x, y, max_width, str) == text_from(c, x, y, max_width, str, 1)

\* unset written with `&=` of the bit instead of its complement
unset_keep(c, x, y) ==
    LET k == CellKey(x, y)
        a == Entry(c, k)
        b == Pixel(x, y)
    IN  Put(c, k, [a EXCEPT !.mask = IF BitTest(a.mask, b) THEN b ELSE 0])

\* unset that drops a cell from the map once its mask is empty
unset_prune(c, x, y) ==
    LET k == CellKey(x, y)
        a == Entry(c, k)
        m == BitClear(a.mask, Pixel(x, y))
    IN  IF m = 0
        THEN [c EXCEPT !.chars = [q \in (DOMAIN c.chars) \ {k} |-> c.chars[q]]]
        ELSE Put(c, k, [a EXCEPT !.mask = m])

\* unset written with `^=` of the bit
unset_flip(c, x, y) ==
    LET k == CellKey(x, y)
        a == Entry(c, k)
    IN  Put(c, k, [a EXCEPT !.mask = BitXor(a.mask, Pixel(x, y))])

unset(c, x, y) ==
    LET k == CellKey(x, y)
        a == Entry(c, k)
    IN  Put(c, k, [a EXCEPT !.mask = BitClear(a.mask, Pixel(x, y))])

\* toggle written with `|=` instead of `^=`
toggle_or(c, x, y) ==
    LET k == CellKey(x, y)
        a == Entry(c, k)
    IN  Put(c, k, [a EXCEPT !.mask = BitOr(a.mask, Pixel(x, y))])

toggle(c, x, y) ==
    LET k == CellKey(x, y)
        a == Entry(c, k)
    IN  Put(c, k, [a EXCEPT !.mask = BitXor(a.mask, Pixel(x, y))])

get(c, x, y) ==
    LET k == CellKey(x, y)
    IN  IF k \in DOMAIN c.chars
        THEN BitTest(c.chars[k].mask, Pixel(x, y))
        ELSE FALSE

\* one cell of a row: the override character, the bare Braille glyph, or the
\* Braille glyph wrapped in the cell's colour
Glyph(cell) ==
    IF cell.mask = 0 THEN [cp |-> cell.ch, fg |-> "none"]
    ELSE IF ~cell.colored THEN [cp |-> 10240 + cell.mask, fg |-> "none"]
    ELSE [cp |-> 10240 + cell.mask, fg |-> cell.color]

SetMax(S) ==
    IF S = {} THEN 0
    ELSE LET v == CHOOSE v \in S : \A w \in S : w <= v IN v

\* the first loop of rows(): the largest cell column / cell row to print
maxrow(c) == Max(c.width, SetMax({k[1] : k \in DOMAIN c.chars}))
maxcol(c) == Max(c.height, SetMax({k[2] : k \in DOMAIN c.chars}))

rows(c) ==
    [y \in 1 .. (maxcol(c) + 1) |->
        [x \in 1 .. (maxrow(c) + 1) |-> Glyph(Entry(c, <<x - 1, y - 1>>))]]

NL == [cp |-> 10, fg |-> "none"]

RECURSIVE Join(_, _)
Join(rs, i) ==
    IF i > Len(rs) THEN <<>>
    ELSE IF i = Len(rs) THEN rs[i]
    ELSE rs[i] \o <<NL>> \o Join(rs, i + 1)

frame(c) == Join(rows(c), 1)

\* the loop body with x started from y1
LineDot_copy(x1, y1, x2, y2, i) ==
    LET xdiff == Max(x1, x2) - Min(x1, x2)
        ydiff == Max(y1, y2) - Min(y1, y2)
        xdir == IF x1 <= x2 THEN 1 ELSE -1
        ydir == IF y1 <= y2 THEN 1 ELSE -1
        r == Max(xdiff, ydiff)
        y == IF ydiff # 0 THEN y1 + ((i * ydiff) \div r) * ydir ELSE y1
        x == IF xdiff # 0 THEN y1 + ((i * xdiff) \div r) * xdir ELSE y1
    IN  <<x, y>>

\* the dot of iteration i of the loop of line / line_colored, for lines of
\* fewer than 46341 dots: the products i * ydiff and i * xdiff are then below
\* 2^31 and the u32 product is the product of the integers
LineDot(x1, y1, x2, y2, i) ==
    LET xdiff == Max(x1, x2) - Min(x1, x2)
        ydiff == Max(y1, y2) - Min(y1, y2)
        xdir == IF x1 <= x2 THEN 1 ELSE -1
        ydir == IF y1 <= y2 THEN 1 ELSE -1
        r == Max(xdiff, ydiff)
        y == IF ydiff # 0 THEN y1 + ((i * ydiff) \div r) * ydir ELSE y1
        x == IF xdiff # 0 THEN x1 + ((i * xdiff) \div r) * xdir ELSE x1
    IN  <<x, y>>

\* the same dot for lines of any length, the products taken in u32 and
\* wrapped (the outcome of a build without overflow checks)
LineDotU32(x1, y1, x2, y2, i) ==
    LET xdiff == Max(x1, x2) - Min(x1, x2)
        ydiff == Max(y1, y2) - Min(y1, y2)
        xdir == IF x1 <= x2 THEN 1 ELSE -1
        ydir == IF y1 <= y2 THEN 1 ELSE -1
        r == Max(xdiff, ydiff)
        y == IF ydiff # 0 THEN y1 + MulDiv(i, ydiff, r) * ydir ELSE y1
        x == IF xdiff # 0 THEN x1 + MulDiv(i, xdiff, r) * xdir ELSE x1
    IN  <<x, y>>

\* iteration i of the loop multiplies past u32::MAX: a panic in a build with
\* overflow checks, a wrapped product (the one of LineDotU32) in one without
LineOverflows(x1, y1, x2, y2, i) ==
    LET xdiff == Max(x1, x2) - Min(x1, x2)
        ydiff == Max(y1, y2) - Min(y1, y2)
    IN  mul_overflows(i, ydiff) \/ mul_overflows(i, xdiff)

LineLen(x1, y1, x2, y2) ==
    Max(Max(x1, x2) - Min(x1, x2), Max(y1, y2) - Min(y1, y2))

\* the iterations lo..hi of `for i in 0..=r`, in order (the range is halved
\* to keep the evaluation shallow)
RECURSIVE line_from(_, _, _, _, _, _, _)
line_from(c, x1, y1, x2, y2, lo, hi) ==
    IF lo > hi THEN c
    ELSE IF lo = hi
    THEN LET d == LineDot(x1, y1, x2, y2, lo) IN set(c, d[1], d[2])
    ELSE LET mid == (lo + hi) \div 2
         IN  Bind(line_from(c, x1, y1, x2, y2, lo, mid),
                  LAMBDA a : line_from(a, x1, y1, x2, y2, mid + 1, hi))

line(c, x1, y1, x2, y2) ==
    Bind(c, LAMBDA a : line_from(a, x1, y1, x2, y2,
                                 0, LineLen(x1, y1, x2, y2)))

RECURSIVE line_colored_from(_, _, _, _, _, _, _, _)
line_colored_from(c, x1, y1, x2, y2, color, lo, hi) ==
    IF lo > hi THEN c
    ELSE IF lo = hi
    THEN LET d == LineDot(x1, y1, x2, y2, lo)
         IN  set_colored(c, d[1], d[2], color)
    ELSE LET mid == (lo + hi) \div 2
         IN  Bind(line_colored_from(c, x1, y1, x2, y2, color, lo, mid),
                  LAMBDA a : line_colored_from(a, x1, y1, x2, y2, color,
                                               mid + 1, hi))

line_colored(c, x1, y1, x2, y2, color) ==
    Bind(c, LAMBDA a : line_colored_from(a, x1, y1, x2, y2, color,
                                         0, LineLen(x1, y1, x2, y2)))

-----------------------------------------------------------------------------
(* f32 values.  A finite value of the model is an integer below INFINITY   *)
(* in magnitude; the two infinities and NaN are written as the integers    *)
(* INFINITY, -INFINITY and NaN, and every operation treats them as IEEE    *)
(* 754 does.  A quotient is kept exact, as a pair <<n, d>> with d > 0;     *)
(* <<1, 0>>, <<-1, 0>> and <<0, 0>> are the quotients +inf, -inf and NaN.  *)

INFINITY == 1000000
NEG_INFINITY == -INFINITY
NaN == INFINITY + 1

IsNaN(a) == a = NaN
IsInf(a) == a = INFINITY \/ a = NEG_INFINITY
Sign(a) == IF a > 0 THEN 1 ELSE IF a < 0 THEN -1 ELSE 0
Abs(a) == IF a < 0 THEN -a ELSE a

\* a <= b, a >= b on f32: false when either side is NaN
FLe(a, b) == ~IsNaN(a) /\ ~IsNaN(b) /\ a <= b
FGe(a, b) == ~IsNaN(a) /\ ~IsNaN(b) /\ a >= b

\* f32::min, f32::max: a NaN argument is ignored
FMin(a, b) == IF IsNaN(a) THEN b ELSE IF IsNaN(b) THEN a ELSE Min(a, b)
FMax(a, b) == IF IsNaN(a) THEN b ELSE IF IsNaN(b) THEN a ELSE Max(a, b)

FSub(a, b) ==
    IF IsNaN(a) \/ IsNaN(b) THEN NaN
    ELSE IF IsInf(a) THEN (IF a = b THEN NaN ELSE a)
    ELSE IF IsInf(b) THEN -b
    ELSE a - b

FMul(a, b) ==
    IF IsNaN(a) \/ IsNaN(b) THEN NaN
    ELSE IF IsInf(a) \/ IsInf(b)
         THEN (IF a = 0 \/ b = 0 THEN NaN ELSE Sign(a) * Sign(b) * INFINITY)
    ELSE a * b

QNaN == <<0, 0>>
QInf(sg) == <<sg, 0>>
QOfF(a) ==
    IF IsNaN(a) THEN QNaN ELSE IF IsInf(a) THEN QInf(Sign(a)) ELSE <<a, 1>>

\* a / b; a zero divisor is the +0.0 that x - x gives
FDiv(a, b) ==
    IF IsNaN(a) \/ IsNaN(b) THEN QNaN
    ELSE IF IsInf(a) THEN (IF IsInf(b) THEN QNaN
                           ELSE QInf(Sign(a) * (IF b < 0 THEN -1 ELSE 1)))
    ELSE IF IsInf(b) THEN <<0, 1>>
    ELSE IF b = 0 THEN (IF a = 0 THEN QNaN ELSE QInf(Sign(a)))
    ELSE <<a * Sign(b), Abs(b)>>

\* a + q for a finite a
QAdd(a, q) == IF q[2] = 0 THEN q ELSE <<a * q[2] + q[1], q[2]>>

\* f32::round: to the nearest integer, halves away from zero
round(q) ==
    IF q[2] = 0
    THEN (IF q[1] = 0 THEN NaN ELSE q[1] * INFINITY)
    ELSE IF q[1] >= 0
         THEN (2 * q[1] + q[2]) \div (2 * q[2])
         ELSE -((2 * (-q[1]) + q[2]) \div (2 * q[2]))

\* `as u32` of an integral f32: NaN and the negatives give 0, and +inf
\* saturates to u32::MAX, which the model writes INFINITY (every use of the
\* result compares it with, or subtracts it from, a width or a height)
AsU32(a) == IF IsNaN(a) \/ a < 0 THEN 0 ELSE a

\* `as u32` of any f32: the fraction is dropped first
QAsU32(q) ==
    IF q[2] = 0 THEN AsU32(round(q))
    ELSE IF q[1] < 0 THEN 0 ELSE q[1] \div q[2]

\* f32::is_normal: neither zero, NaN nor infinite (the model has no subnormal)
is_normal(a) == ~IsNaN(a) /\ ~IsInf(a) /\ a # 0

\* x.partial_cmp(y).unwrap_or(cmp::Ordering::Equal)
cmp_or_equal(a, b) ==
    IF IsNaN(a) \/ IsNaN(b) THEN "Equal"
    ELSE IF a < b THEN "Less" ELSE IF a > b THEN "Greater" ELSE "Equal"

\* Iterator::max_by keeps the last of equal elements, min_by the first; the
\* fold over ys[lo..hi] from acc, in order
RECURSIVE max_by_from(_, _, _, _)
max_by_from(ys, lo, hi, acc) ==
    IF lo > hi THEN acc
    ELSE IF lo = hi
    THEN (IF cmp_or_equal(acc, ys[lo]) = "Greater" THEN acc ELSE ys[lo])
    ELSE LET mid == (lo + hi) \div 2
         IN  Bind(max_by_from(ys, lo, mid, acc),
                  LAMBDA a : max_by_from(ys, mid + 1, hi, a))

RECURSIVE min_by_from(_, _, _, _)
min_by_from(ys, lo, hi, acc) ==
    IF lo > hi THEN acc
    ELSE IF lo = hi
    THEN (IF cmp_or_equal(acc, ys[lo]) = "Greater" THEN ys[lo] ELSE acc)
    ELSE LET mid == (lo + hi) \div 2
         IN  Bind(min_by_from(ys, lo, mid, acc),
                  LAMBDA a : min_by_from(ys, mid + 1, hi, a))

\* ys.iter().max_by(..).unwrap_or(&0.0), ys.iter().min_by(..).unwrap_or(&0.0)
max_by(ys) == IF Len(ys) = 0 THEN 0 ELSE max_by_from(ys, 2, Len(ys), ys[1])
min_by(ys) == IF Len(ys) = 0 THEN 0 ELSE min_by_from(ys, 2, Len(ys), ys[1])

-----------------------------------------------------------------------------
(* textplots/scale.rs: the affine scale.  A scale is the record of its     *)
(* domain and its range.                                                   *)

Scale_new(dlo, dhi, rlo, rhi) ==
    [dlo |-> dlo, dhi |-> dhi, rlo |-> rlo, rhi |-> rhi]

\* range.lo + (v - domain.lo) * (range.hi - range.lo) / (domain.hi - domain.lo)
linear(sc, v) ==
    QAdd(sc.rlo, FDiv(FMul(FSub(v, sc.dlo), sc.rhi - sc.rlo),
                      FSub(sc.dhi, sc.dlo)))

\* the same with the roles of domain and range swapped; a quotient added to
\* an infinite or NaN domain.lo is that value or NaN
inv_linear(sc, i) ==
    LET q == FDiv(FMul(i - sc.rlo, FSub(sc.dhi, sc.dlo)), sc.rhi - sc.rlo)
    IN  IF IsNaN(sc.dlo) THEN QNaN
        ELSE IF IsInf(sc.dlo)
             THEN (IF q[2] = 0 /\ q[1] # Sign(sc.dlo) THEN QNaN
                   ELSE QInf(Sign(sc.dlo)))
        ELSE QAdd(sc.dlo, q)

-----------------------------------------------------------------------------
(* textplots/mod.rs: shapes and the Chart.  A closure of a Continuous      *)
(* shape is either constant or a step at 0.                                *)

\* |x| c, and |x| if x < 0.0 { lo } else { hi }
Apply(f, x) ==
    IF f.kind = "const" THEN f.c
    ELSE IF x[1] < 0 THEN f.lo ELSE f.hi

\* Chart::new that panics only when both sides are below 32
Chart_new_and(width, height, xmin, xmax) ==
    IF width < 32 /\ height < 32
    THEN [kind |-> "panicked"]
    ELSE [kind |-> "ok", xmin |-> xmin, xmax |-> xmax,
          ymin |-> INFINITY, ymax |-> NEG_INFINITY,
          y_ranging |-> "AutoRange", width |-> width, height |-> height,
          shapes |-> <<>>]

Chart_new(width, height, xmin, xmax) ==
    IF width < 32 \/ height < 32
    THEN [kind |-> "panicked"]
    ELSE [kind |-> "ok", xmin |-> xmin, xmax |-> xmax,
          ymin |-> INFINITY, ymax |-> NEG_INFINITY,
          y_ranging |-> "AutoRange", width |-> width, height |-> height,
          shapes |-> <<>>]

Chart_new_with_y_range(width, height, xmin, xmax, ymin, ymax) ==
    IF width < 32 \/ height < 32
    THEN [kind |-> "panicked"]
    ELSE [kind |-> "ok", xmin |-> xmin, xmax |-> xmax,
          ymin |-> ymin, ymax |-> ymax,
          y_ranging |-> "FixedRange", width |-> width, height |-> height,
          shapes |-> <<>>]

\* the iterations lo..hi of
\* for j in 0..=self.height { if j % 3 == 0 { self.canvas.set(i, j) } }
RECURSIVE vline_from(_, _, _, _, _)
vline_from(ch, c, i, lo, hi) ==
    IF lo > hi THEN c
    ELSE IF lo = hi THEN (IF lo % 3 = 0 THEN set(c, i, lo) ELSE c)
    ELSE LET mid == (lo + hi) \div 2
         IN  Bind(vline_from(ch, c, i, lo, mid),
                  LAMBDA a : vline_from(ch, a, i, mid + 1, hi))

vline(ch, c, i) ==
    Bind(c, LAMBDA a :
            IF i <= ch.width THEN vline_from(ch, a, i, 0, ch.height) ELSE a)

\* the iterations lo..hi of
\* for i in 0..=self.width { if i % 3 == 0 { set(i, self.height - j) } }
RECURSIVE hline_from(_, _, _, _, _)
hline_from(ch, c, j, lo, hi) ==
    IF lo > hi THEN c
    ELSE IF lo = hi
    THEN (IF lo % 3 = 0 THEN set(c, lo, ch.height - j) ELSE c)
    ELSE LET mid == (lo + hi) \div 2
         IN  Bind(hline_from(ch, c, j, lo, mid),
                  LAMBDA a : hline_from(ch, a, j, mid + 1, hi))

hline(ch, c, j) ==
    Bind(c, LAMBDA a :
            IF j <= ch.height THEN hline_from(ch, a, j, 0, ch.width) ELSE a)

borders(ch, c) ==
    hline(ch, hline(ch, vline(ch, vline(ch, c, 0), ch.width), 0), ch.height)

x_scale(ch) == Scale_new(ch.xmin, ch.xmax, 0, ch.width)
y_scale(ch) == Scale_new(ch.ymin, ch.ymax, 0, ch.height)

axis(ch, c) ==
    LET c1 == IF FLe(ch.xmin, 0) /\ FGe(ch.xmax, 0)
              THEN vline(ch, c, QAsU32(linear(x_scale(ch), 0)))
              ELSE c
    IN  IF FLe(ch.ymin, 0) /\ FGe(ch.ymax, 0)
        THEN hline(ch, c1, QAsU32(linear(y_scale(ch), 0)))
        ELSE c1

\* the samples of a Continuous shape: f at inv_linear(i) for i in 0..width
ContinuousY(ch, f, i) == Apply(f, inv_linear(x_scale(ch), i))

\* the rows j of the normal samples of a Continuous shape, before
\* `self.height - j as u32`
ContinuousJ(ch, f) ==
    LET n == {i \in 0 .. (ch.width - 1) : is_normal(ContinuousY(ch, f, i))}
    IN  {AsU32(round(linear(y_scale(ch), ContinuousY(ch, f, i)))) : i \in n}

\* `self.height - j as u32` overflows for some sample of the shape
Underflows(ch, shape) ==
    /\ shape.kind = "Continuous"
    /\ \E j \in ContinuousJ(ch, shape.f) : j > ch.height

\* (0..self.width).filter_map(..): the samples with a normal y, as (i, y)
ContinuousSamples(ch, f) ==
    LET Normal(p) == is_normal(p[2])
    IN  SelectSeq([k \in 1 .. ch.width |-> <<k - 1, ContinuousY(ch, f, k - 1)>>],
                  Normal)

ContinuousPoints(ch, f) ==
    LET s == ContinuousSamples(ch, f)
    IN  [k \in 1 .. Len(s) |->
            <<s[k][1],
              ch.height - AsU32(round(linear(y_scale(ch), s[k][2])))>>]

\* dt.iter().filter_map(..): the points with i <= width and j <= height
DiscretePoints(ch, dt) ==
    LET InCanvas(p) == p[1] <= ch.width /\ p[2] <= ch.height
        s == SelectSeq([n \in 1 .. Len(dt) |->
                           <<AsU32(round(linear(x_scale(ch), dt[n][1]))),
                             AsU32(round(linear(y_scale(ch), dt[n][2])))>>],
                       InCanvas)
    IN  [k \in 1 .. Len(s) |-> <<s[k][1], ch.height - s[k][2]>>]

\* translate (x, y) points into screen coordinates
Points(ch, shape) ==
    IF shape.kind = "Continuous"
    THEN ContinuousPoints(ch, shape.f)
    ELSE DiscretePoints(ch, shape.dt)

\* line or line_colored, as the shape was registered
Segment(c, x1, y1, x2, y2, color) ==
    IF color = "None" THEN line(c, x1, y1, x2, y2)
    ELSE line_colored(c, x1, y1, x2, y2, color)

\* the body of `for pair in points.windows(2)` for each kind of shape
\* the pair drawn with the riser of the step at x2 instead of x1
DrawPair_late(ch, c, kind, p1, p2, color) ==
    LET x1 == p1[1]
        y1 == p1[2]
        x2 == p2[1]
        y2 == p2[2]
    IN  IF kind \in {"Continuous", "Lines"}
        THEN Segment(c, x1, y1, x2, y2, color)
        ELSE IF kind = "Steps"
        THEN Segment(Segment(c, x1, y1, x2, y1, color), x2, y1, x2, y2, color)
        ELSE Segment(Segment(Segment(Segment(c, x1, y1, x2, y1, color),
                                     x2, y1, x2, y2, color),
                             x1, ch.height, x1, y1, color),
                     x2, ch.height, x2, y2, color)

DrawPair(ch, c, kind, p1, p2, color) ==
    LET x1 == p1[1]
        y1 == p1[2]
        x2 == p2[1]
        y2 == p2[2]
    IN  IF kind \in {"Continuous", "Lines"}
        THEN Segment(c, x1, y1, x2, y2, color)
        ELSE IF kind = "Steps"
        THEN Segment(Segment(c, x1, y2, x2, y2, color), x1, y1, x1, y2, color)
        ELSE Segment(Segment(Segment(Segment(c, x1, y2, x2, y2, color),
                                     x1, y1, x1, y2, color),
                             x1, ch.height, x1, y1, color),
                     x2, ch.height, x2, y2, color)

\* the windows lo..hi of `for pair in points.windows(2)`, in order
RECURSIVE DrawPairs(_, _, _, _, _, _, _)
DrawPairs(ch, c, kind, pts, color, lo, hi) ==
    IF lo > hi THEN c
    ELSE IF lo = hi
    THEN DrawPair(ch, c, kind, pts[lo], pts[lo + 1], color)
    ELSE LET mid == (lo + hi) \div 2
         IN  Bind(DrawPairs(ch, c, kind, pts, color, lo, mid),
                  LAMBDA a : DrawPairs(ch, a, kind, pts, color, mid + 1, hi))

\* Shape::Points: self.canvas.set(x, y) for the points lo..hi, in order
RECURSIVE DrawPoints(_, _, _, _)
DrawPoints(c, pts, lo, hi) ==
    IF lo > hi THEN c
    ELSE IF lo = hi THEN set(c, pts[lo][1], pts[lo][2])
    ELSE LET mid == (lo + hi) \div 2
         IN  Bind(DrawPoints(c, pts, lo, mid),
                  LAMBDA a : DrawPoints(a, pts, mid + 1, hi))

DrawShape(ch, c, shape, color) ==
    Bind(Points(ch, shape),
         LAMBDA pts :
            IF shape.kind = "Points"
            THEN DrawPoints(c, pts, 1, Len(pts))
            ELSE DrawPairs(ch, c, shape.kind, pts, color, 1, Len(pts) - 1))

RECURSIVE figures_from(_, _, _)
figures_from(ch, c, n) ==
    IF n > Len(ch.shapes) THEN c
    ELSE Bind(DrawShape(ch, c, ch.shapes[n][1], ch.shapes[n][2]),
              LAMBDA a : figures_from(ch, a, n + 1))

\* figures on a canvas wiped first
figures_wiped(ch, c) == Bind(clear(c), LAMBDA a : figures_from(ch, a, 1))

figures(ch, c) == Bind(c, LAMBDA a : figures_from(ch, a, 1))

\* figures stops in a panic (arithmetic overflow) at the first shape with a
\* sample above the range
figures_panics(ch) ==
    \E n \in 1 .. Len(ch.shapes) : Underflows(ch, ch.shapes[n][1])

\* the y values rescale takes the extent of
ContinuousYs(ch, f) ==
    LET s == ContinuousSamples(ch, f)
    IN  [k \in 1 .. Len(s) |-> s[k][2]]

DiscreteYs(ch, dt) ==
    LET InX(p) == FGe(p[1], ch.xmin) /\ FLe(p[1], ch.xmax)
        s == SelectSeq(dt, InX)
    IN  [k \in 1 .. Len(s) |-> s[k][2]]

Ys(ch, shape) ==
    IF shape.kind = "Continuous"
    THEN ContinuousYs(ch, shape.f)
    ELSE DiscreteYs(ch, shape.dt)

\* rescale that stores the extent of the shape alone
rescale_last(ch, shape) ==
    Bind(Ys(ch, shape),
         LAMBDA ys : [ch EXCEPT !.ymin = min_by(ys), !.ymax = max_by(ys)])

\* rescale that leaves the range alone for a shape without a sample to go by
rescale_skip(ch, shape) ==
    Bind(Ys(ch, shape),
         LAMBDA ys : IF Len(ys) = 0 THEN ch
                     ELSE [ch EXCEPT !.ymin = FMin(ch.ymin, min_by(ys)),
                                     !.ymax = FMax(ch.ymax, max_by(ys))])

rescale(ch, shape) ==
    Bind(Ys(ch, shape),
         LAMBDA ys : [ch EXCEPT !.ymin = FMin(ch.ymin, min_by(ys)),
                                !.ymax = FMax(ch.ymax, max_by(ys))])

\* registration that rescales in either mode
register_always(ch, shape, color) ==
    rescale([ch EXCEPT !.shapes = Append(ch.shapes, <<shape, color>>)], shape)

\* lineplot registers with color "None", linecolorplot with Some(color)
register(ch, shape, color) ==
    LET ch1 == [ch EXCEPT !.shapes = Append(ch.shapes, <<shape, color>>)]
    IN  IF ch.y_ranging = "AutoRange" THEN rescale(ch1, shape) ELSE ch1

lineplot(ch, shape) == register(ch, shape, "None")
linecolorplot(ch, shape, color) == register(ch, shape, color)

\* format!("{:.1}", v) of an integral, infinite or NaN f32, as code points
RECURSIVE Digits(_)
Digits(n) ==
    IF n < 10 THEN <<48 + n>> ELSE Digits(n \div 10) \o <<48 + (n % 10)>>

Fmt1(v) ==
    IF IsNaN(v) THEN <<78, 97, 78>>
    ELSE IF v = INFINITY THEN <<105, 110, 102>>
    ELSE IF v = NEG_INFINITY THEN <<45, 105, 110, 102>>
    ELSE (IF v < 0 THEN <<45>> ELSE <<>>) \o Digits(Abs(v)) \o <<46, 48>>

\* {: <width$}: left-aligned, filled with spaces up to width
PadRight(cps, w) ==
    IF Len(cps) >= w THEN cps
    ELSE cps \o [i \in 1 .. (w - Len(cps)) |-> 32]

\* the glyph sequence of a text pushed bare, given by its code points
Bare(cps) == [i \in 1 .. Len(cps) |-> [cp |-> cps[i], fg |-> "none"]]

\* frame.find('\n'): the first newline, 0 when there is none
FindNL(fr) ==
    IF \E i \in 1 .. Len(fr) : fr[i] = NL
    THEN CHOOSE i \in 1 .. Len(fr) :
            fr[i] = NL /\ \A k \in 1 .. (i - 1) : fr[k] # NL
    ELSE 0

\* the text to_string builds around the frame of canvas c, figures and axis
\* already drawn
Decorate(ch, c) ==
    LET fr == frame(c)
        idx == FindNL(fr)
    IN  IF idx = 0 THEN fr
        ELSE SubSeq(fr, 1, idx - 1)
             \o Bare(<<32>> \o Fmt1(ch.ymax))
             \o SubSeq(fr, idx, Len(fr))
             \o Bare(<<32>> \o Fmt1(ch.ymin) \o <<10>>
                     \o PadRight(Fmt1(ch.xmin), (ch.width \div 2) - 3)
                     \o Fmt1(ch.xmax) \o <<10>>)

\* the canvas after to_string: figures, then axis
to_string_canvas(ch, c) == axis(ch, figures(ch, c))

to_string(ch, c) ==
    Bind(to_string_canvas(ch, c), LAMBDA a : Decorate(ch, a))

-----------------------------------------------------------------------------
(* The Chart as a state machine: the two constructors, then one action per *)
(* public operation.                                                       *)

\* how far above the floor of 32 the widths and heights tried go
SizeSlack == 1
\* number of Chart operations applied to one Chart
MaxChartOps == 3

ChartSizes == 31 .. (32 + SizeSlack)
XRanges == {<<-1, 2>>}
YRanges == {<<0, 3>>}

\* the samples of the discrete shapes: inside the x range; with a sample
\* right of it; with a NaN before a finite value; all right of the x range.
\* The closures: a step inside the fixed y range, a constant above it
D1 == <<<<0, 1>>, <<1, 3>>, <<2, 2>>>>
D2 == <<<<0, -1>>, <<3, 5>>>>
D3 == <<<<0, NaN>>, <<1, 1>>>>
D4 == <<<<3, 7>>>>

Pool ==
    { [kind |-> "Bars", dt |-> D1],
      [kind |-> "Lines", dt |-> D1],
      [kind |-> "Steps", dt |-> D1],
      [kind |-> "Steps", dt |-> D2],
      [kind |-> "Points", dt |-> D2],
      [kind |-> "Points", dt |-> D4],
      [kind |-> "Lines", dt |-> D3],
      [kind |-> "Continuous", f |-> [kind |-> "step", lo |-> -1, hi |-> 2]],
      [kind |-> "Continuous", f |-> [kind |-> "const", c |-> 5]] }

ChartColors == {"BrightRed"}

NoChart == [kind |-> "none"]
NoCanvas == [chars |-> <<>>, width |-> -1, height |-> -1]
Panicked == [kind |-> "panicked"]

ChartInit ==
    /\ chart = NoChart
    /\ canvas = NoCanvas
    /\ hist = <<>>
    /\ out = <<>>

NewChart ==
    /\ chart.kind = "none"
    /\ \E w \in ChartSizes, h \in ChartSizes, xr \in XRanges :
          /\ chart' = Chart_new(w, h, xr[1], xr[2])
          /\ canvas' = IF chart'.kind = "ok" THEN Canvas_new(w, h) ELSE canvas
          /\ hist' = <<[op |-> "new", w |-> w, h |-> h]>>
    /\ UNCHANGED out

NewChartWithYRange ==
    /\ chart.kind = "none"
    /\ \E w \in ChartSizes, h \in ChartSizes, xr \in XRanges, yr \in YRanges :
          /\ chart' = Chart_new_with_y_range(w, h, xr[1], xr[2], yr[1], yr[2])
          /\ canvas' = IF chart'.kind = "ok" THEN Canvas_new(w, h) ELSE canvas
          /\ hist' = <<[op |-> "new_with_y_range", w |-> w, h |-> h,
                        ymin |-> yr[1], ymax |-> yr[2]]>>
    /\ UNCHANGED out

CanPlot == chart.kind = "ok" /\ Len(hist) <= MaxChartOps

Lineplot ==
    /\ CanPlot
    /\ \E shape \in Pool :
          /\ chart' = lineplot(chart, shape)
          /\ hist' = Append(hist, [op |-> "lineplot", shape |-> shape])
    /\ UNCHANGED <<canvas, out>>

Linecolorplot ==
    /\ CanPlot
    /\ \E shape \in Pool, col \in ChartColors :
          /\ chart' = linecolorplot(chart, shape, col)
          /\ hist' = Append(hist, [op |-> "linecolorplot", shape |-> shape,
                                   color |-> col])
    /\ UNCHANGED <<canvas, out>>

Figures ==
    /\ CanPlot
    /\ IF figures_panics(chart)
       THEN chart' = Panicked /\ UNCHANGED canvas
       ELSE canvas' = figures(chart, canvas) /\ UNCHANGED chart
    /\ hist' = Append(hist, [op |-> "figures"])
    /\ UNCHANGED out

Axis ==
    /\ CanPlot
    /\ canvas' = axis(chart, canvas)
    /\ hist' = Append(hist, [op |-> "axis"])
    /\ UNCHANGED <<chart, out>>

ToStr ==
    /\ CanPlot
    /\ IF figures_panics(chart)
       THEN chart' = Panicked /\ UNCHANGED <<canvas, out>>
       ELSE /\ canvas' = to_string_canvas(chart, canvas)
            /\ out' = Decorate(chart, canvas')
            /\ UNCHANGED chart
    /\ hist' = Append(hist, [op |-> "to_string"])

\* nice: borders, then display, which prints to_string
Nice ==
    /\ CanPlot
    /\ IF figures_panics(chart)
       THEN chart' = Panicked /\ UNCHANGED <<canvas, out>>
       ELSE /\ canvas' = to_string_canvas(chart, borders(chart, canvas))
            /\ out' = Decorate(chart, canvas')
            /\ UNCHANGED chart
    /\ hist' = Append(hist, [op |-> "nice"])

ChartNext ==
    \/ NewChart
    \/ NewChartWithYRange
    \/ Lineplot
    \/ Linecolorplot
    \/ Figures
    \/ Axis
    \/ ToStr
    \/ Nice

SpecChart == ChartInit /\ [][ChartNext]_vars

-----------------------------------------------------------------------------
(* The Canvas as a state machine: one action per public operation.  hist   *)
(* is the sequence of the operations applied since construction.           *)

CanvasInit ==
    /\ \E sz \in Sizes :
          /\ canvas = Canvas_new(sz[1], sz[2])
          /\ hist = <<[op |-> "new", w |-> sz[1], h |-> sz[2]]>>
    /\ chart = NoChart
    /\ out = <<>>

CanStep == Len(hist) <= MaxOps

Set ==
    /\ CanStep
    /\ \E d \in Dots :
          /\ canvas' = set(canvas, d[1], d[2])
          /\ hist' = Append(hist, [op |-> "set", x |-> d[1], y |-> d[2]])
    /\ UNCHANGED <<chart, out>>

SetColored ==
    /\ CanStep
    /\ \E d \in Dots, col \in Colors :
          /\ canvas' = set_colored(canvas, d[1], d[2], col)
          /\ hist' = Append(hist, [op |-> "set_colored", x |-> d[1],
                                   y |-> d[2], color |-> col])
    /\ UNCHANGED <<chart, out>>

SetChar ==
    /\ CanStep
    /\ \E d \in Dots, l \in Letters :
          /\ canvas' = set_char(canvas, d[1], d[2], l)
          /\ hist' = Append(hist, [op |-> "set_char", x |-> d[1],
                                   y |-> d[2], ch |-> l])
    /\ UNCHANGED <<chart, out>>

Text ==
    /\ CanStep
    /\ \E d \in Dots, mw \in TextWidths, s \in Texts :
          /\ canvas' = text(canvas, d[1], d[2], mw, s)
          /\ hist' = Append(hist, [op |-> "text", x |-> d[1], y |-> d[2],
                                   max_width |-> mw, text |-> s])
    /\ UNCHANGED <<chart, out>>

Unset ==
    /\ CanStep
    /\ \E d \in Dots :
          /\ canvas' = unset(canvas, d[1], d[2])
          /\ hist' = Append(hist, [op |-> "unset", x |-> d[1], y |-> d[2]])
    /\ UNCHANGED <<chart, out>>

Toggle ==
    /\ CanStep
    /\ \E d \in Dots :
          /\ canvas' = toggle(canvas, d[1], d[2])
          /\ hist' = Append(hist, [op |-> "toggle", x |-> d[1], y |-> d[2]])
    /\ UNCHANGED <<chart, out>>

Line ==
    /\ CanStep
    /\ \E p \in LinePairs :
          /\ canvas' = line(canvas, p[1][1], p[1][2], p[2][1], p[2][2])
          /\ hist' = Append(hist, [op |-> "line", x |-> p[1][1], y |-> p[1][2],
                                   x2 |-> p[2][1], y2 |-> p[2][2]])
    /\ UNCHANGED <<chart, out>>

LineColored ==
    /\ CanStep
    /\ \E p \in LinePairs, col \in Colors :
          /\ canvas' = line_colored(canvas, p[1][1], p[1][2], p[2][1], p[2][2],
                                    col)
          /\ hist' = Append(hist, [op |-> "line_colored", x |-> p[1][1],
                                   y |-> p[1][2], x2 |-> p[2][1],
                                   y2 |-> p[2][2], color |-> col])
    /\ UNCHANGED <<chart, out>>

Clear ==
    /\ CanStep
    /\ canvas' = clear(canvas)
    /\ hist' = Append(hist, [op |-> "clear"])
    /\ UNCHANGED <<chart, out>>

CanvasNext ==
    \/ Set
    \/ SetColored
    \/ SetChar
    \/ Text
    \/ Unset
    \/ Toggle
    \/ Line
    \/ LineColored
    \/ Clear

SpecCanvas == CanvasInit /\ [][CanvasNext]_vars

-----------------------------------------------------------------------------
(* The golden scenario of the module documentation: a Canvas::new(10, 10)  *)
(* to which set and line are applied, with the scenario's own arguments    *)
(* among the inputs.                                                       *)

GoldenDots == {4, 5} \X {4, 5}
GoldenEnds == {2, 8} \X {2, 8}

GoldenInit ==
    /\ canvas = Canvas_new(10, 10)
    /\ hist = <<[op |-> "new", w |-> 10, h |-> 10]>>
    /\ chart = NoChart
    /\ out = <<>>

GoldenSet ==
    /\ CanStep
    /\ \E d \in GoldenDots :
          /\ canvas' = set(canvas, d[1], d[2])
          /\ hist' = Append(hist, [op |-> "set", x |-> d[1], y |-> d[2]])
    /\ UNCHANGED <<chart, out>>

GoldenLine ==
    /\ CanStep
    /\ \E d1 \in GoldenEnds, d2 \in GoldenEnds :
          /\ canvas' = line(canvas, d1[1], d1[2], d2[1], d2[2])
          /\ hist' = Append(hist, [op |-> "line", x |-> d1[1], y |-> d1[2],
                                   x2 |-> d2[1], y2 |-> d2[2]])
    /\ UNCHANGED <<chart, out>>

GoldenNext ==
    \/ GoldenSet
    \/ GoldenLine

SpecGolden == GoldenInit /\ [][GoldenNext]_vars

-----------------------------------------------------------------------------
(* Properties of the Canvas.                                               *)

Last == hist[Len(hist)]
Prev == hist[Len(hist) - 1]

\* C1: in every reachable Canvas state and for every dot (x,y), get(x,y) is
\* true after set(x,y), and false after an unset(x,y) that follows it.
C1_SetGetUnset ==
    \A d \in Dots :
        /\ get(set(canvas, d[1], d[2]), d[1], d[2])
        /\ ~get(unset(set(canvas, d[1], d[2]), d[1], d[2]), d[1], d[2])

\* a run in which set(x,y) and then unset(x,y) were applied and the dot reads
\* unset
C1_Witness ==
    /\ Len(hist) >= 3
    /\ Prev.op = "set" /\ Last.op = "unset"
    /\ Prev.x = Last.x /\ Prev.y = Last.y
    /\ ~get(canvas, Last.x, Last.y)

\* every dot of every cell a dot of Dots lies in
CellDots == (0 .. 2 * (MaxX \div 2) + 1) \X (0 .. 4 * (MaxY \div 4) + 3)

\* the dots get reports as set
DotsOn(c) == {e \in CellDots : get(c, e[1], e[2])}

\* C2: for every dot (x,y) and every reachable Canvas state, a toggle(x,y)
\* followed by a second toggle(x,y) leaves get as it was before the first on
\* every dot, and every cell that existed then with the mask it had.
C2_ToggleTwice ==
    [][hist'[Len(hist')].op = "toggle" =>
          LET t == hist'[Len(hist')]
              c2 == toggle(canvas', t.x, t.y)
          IN  /\ DotsOn(c2) = DotsOn(canvas)
              /\ \A k \in DOMAIN canvas.chars :
                    c2.chars[k].mask = canvas.chars[k].mask]_vars

\* a dot that was set, then toggled off
C2_Witness ==
    /\ Len(hist) >= 3
    /\ Prev.op = "set" /\ Last.op = "toggle"
    /\ Prev.x = Last.x /\ Prev.y = Last.y
    /\ ~get(canvas, Last.x, Last.y)
    /\ get(toggle(canvas, Last.x, Last.y), Last.x, Last.y)

GoldenFrame ==
    Bare(<<32, 10240 + 132, 32, 32, 32, 32>>) \o <<NL>> \o
    Bare(<<32, 32, 10240 + 25, 10240 + 132, 32, 32>>) \o <<NL>> \o
    Bare(<<32, 32, 32, 32, 10240 + 1, 32>>)

GoldenRun ==
    /\ Len(hist) = 3
    /\ hist[2] = [op |-> "set", x |-> 5, y |-> 4]
    /\ hist[3] = [op |-> "line", x |-> 2, y |-> 2, x2 |-> 8, y2 |-> 8]

\* C3: on a fresh Canvas::new(10,10), set(5,4) followed by line(2,2,8,8)
\* makes frame() the three rows of the documentation, six glyphs each, with
\* masks 0x84 at cell (1,0), 0x19 at (2,1), 0x84 at (3,1), 0x01 at (4,2) and
\* every other cell a space.
C3_Golden == GoldenRun => frame(canvas) = GoldenFrame

C3_Witness == GoldenRun /\ frame(canvas) = GoldenFrame /\ Len(rows(canvas)) = 3

\* C4: for every dot (x,y) and every reachable Canvas state, line(x,y,x,y)
\* and line_colored(x,y,x,y,c) set the dot (x,y) and change get on no other
\* dot.
C4_DegenerateLine ==
    [][LET l == hist'[Len(hist')]
       IN  (l.op \in {"line", "line_colored"} /\ l.x = l.x2 /\ l.y = l.y2) =>
              /\ get(canvas', l.x, l.y)
              /\ DotsOn(canvas') = DotsOn(canvas) \cup {<<l.x, l.y>>}]_vars

\* a one-dot line drawn next to a dot that was already set
C4_Witness ==
    /\ Len(hist) >= 3
    /\ Last.op \in {"line", "line_colored"}
    /\ Last.x = Last.x2 /\ Last.y = Last.y2
    /\ Prev.op = "set"
    /\ <<Prev.x, Prev.y>> # <<Last.x, Last.y>>
    /\ DotsOn(canvas) = {<<Prev.x, Prev.y>>, <<Last.x, Last.y>>}

RowCount(c) == Len(rows(c))
RowWidth(c) == Len(rows(c)[1])

\* C9 as claimed: no Canvas operation, clear included, makes rows() return
\* fewer rows or fewer cells per row than before.
C9_NeverShrinks ==
    [][RowCount(canvas') >= RowCount(canvas)
       /\ RowWidth(canvas') >= RowWidth(canvas)]_vars

\* C9 amended: every Canvas operation other than clear leaves the number of
\* rows of rows() and the number of cells per row at least what they were;
\* clear returns both to the nominal size.
C9_GrowsUnlessCleared ==
    [][/\ hist'[Len(hist')].op # "clear" =>
             /\ RowCount(canvas') >= RowCount(canvas)
             /\ RowWidth(canvas') >= RowWidth(canvas)
       /\ hist'[Len(hist')].op = "clear" =>
             /\ RowCount(canvas') = canvas.height + 1
             /\ RowWidth(canvas') = canvas.width + 1]_vars

\* a canvas grown past its nominal size by an operation that followed a clear
C9_Witness ==
    /\ Len(hist) >= 3
    /\ Prev.op = "clear" /\ Last.op # "clear"
    /\ RowCount(canvas) > canvas.height + 1
    /\ RowWidth(canvas) > canvas.width + 1

-----------------------------------------------------------------------------
(* Properties of the Chart.                                                *)

\* C5: Chart::new and Chart::new_with_y_range panic, leaving no Chart and no
\* Canvas, exactly when width < 32 or height < 32; otherwise they produce a
\* Chart of that size with its Canvas.
C5_PanicsBelow32 ==
    Len(hist) = 1 =>
        IF hist[1].w < 32 \/ hist[1].h < 32
        THEN chart = Panicked /\ canvas = NoCanvas
        ELSE /\ chart.kind = "ok"
             /\ chart.width = hist[1].w /\ chart.height = hist[1].h
             /\ canvas = Canvas_new(hist[1].w, hist[1].h)

\* a constructor called with a width of 32 and a height just below it
C5_Witness ==
    /\ Len(hist) = 1
    /\ hist[1].w = 32 /\ hist[1].h = 31
    /\ chart = Panicked

\* the samples of a discrete shape that rescale looks at
InXRange(ch, dt) ==
    {n \in 1 .. Len(dt) : FGe(dt[n][1], ch.xmin) /\ FLe(dt[n][1], ch.xmax)}

\* the step registers a shape on a Chart in Auto-range mode
Registers ==
    /\ chart.kind = "ok" /\ chart.y_ranging = "AutoRange"
    /\ chart'.kind = "ok"
    /\ Len(chart'.shapes) = Len(chart.shapes) + 1

Registered == chart'.shapes[Len(chart'.shapes)][1]

\* C6 as claimed, read in the claim's favour for the samples that are not
\* NaN: in Auto-range mode, after registering a discrete shape, ymin <= y <=
\* ymax for every sample (x, y) of it with xmin <= x <= xmax and y not NaN;
\* and no registration increases ymin or decreases ymax.
C6_AutoRangeCovers ==
    [][Registers =>
          /\ chart'.ymin <= chart.ymin
          /\ chart'.ymax >= chart.ymax
          /\ Registered.kind # "Continuous" =>
                \A n \in InXRange(chart', Registered.dt) :
                    ~IsNaN(Registered.dt[n][2]) =>
                        /\ FLe(chart'.ymin, Registered.dt[n][2])
                        /\ FLe(Registered.dt[n][2], chart'.ymax)]_vars

\* the shapes of sq registered in order on ch, each as it was first registered
RECURSIVE RegisterAll(_, _, _)
RegisterAll(ch, sq, n) ==
    IF n > Len(sq) THEN ch
    ELSE Bind(register(ch, sq[n][1], sq[n][2]),
              LAMBDA a : RegisterAll(a, sq, n + 1))

Orders(n) ==
    {p \in [1 .. n -> 1 .. n] : \A i, j \in 1 .. n : p[i] = p[j] => i = j}

\* the Chart as its constructor left it
Fresh(ch) == Chart_new(ch.width, ch.height, ch.xmin, ch.xmax)

\* C7: in Auto-range mode the stored (ymin, ymax) is the one that registering
\* the same shapes in any other order would have stored.
C7_OrderIndependent ==
    (chart.kind = "ok" /\ chart.y_ranging = "AutoRange") =>
        \A p \in Orders(Len(chart.shapes)) :
            LET sq == [i \in 1 .. Len(chart.shapes) |-> chart.shapes[p[i]]]
                ch == RegisterAll(Fresh(chart), sq, 1)
            IN  ch.ymin = chart.ymin /\ ch.ymax = chart.ymax

\* an Auto-range Chart of three shapes, the first two of which alone give
\* different ranges
C7_Witness ==
    /\ chart.kind = "ok" /\ chart.y_ranging = "AutoRange"
    /\ Len(chart.shapes) = 3
    /\ LET a == rescale(Fresh(chart), chart.shapes[1][1])
           b == rescale(Fresh(chart), chart.shapes[2][1])
       IN  a.ymin # b.ymin /\ a.ymax # b.ymax

\* C8: a Chart built with new_with_y_range keeps the ymin and ymax it was
\* given, whatever is registered or rendered afterwards.
C8_FixedRangeKept ==
    (Len(hist) >= 1 /\ hist[1].op = "new_with_y_range" /\ chart.kind = "ok") =>
        /\ chart.y_ranging = "FixedRange"
        /\ chart.ymin = hist[1].ymin
        /\ chart.ymax = hist[1].ymax

\* a fixed-range Chart holding a shape with a sample below the range, after
\* it was rendered
C8_Witness ==
    /\ Len(hist) >= 3
    /\ hist[1].op = "new_with_y_range" /\ chart.kind = "ok"
    /\ Last.op = "to_string"
    /\ \E n \in 1 .. Len(chart.shapes) :
          /\ chart.shapes[n][1].kind # "Continuous"
          /\ \E k \in InXRange(chart, chart.shapes[n][1].dt) :
                chart.shapes[n][1].dt[k][2] < chart.ymin

\* C10: on a Chart that to_string has just rendered, a second to_string
\* leaves every cell of the canvas as it is and returns the same string.
C10_RenderIdempotent ==
    (Len(hist) >= 1 /\ chart.kind = "ok" /\ Last.op = "to_string") =>
        /\ to_string_canvas(chart, canvas) = canvas
        /\ to_string(chart, canvas) = out

\* a rendered Chart of a coloured and an uncoloured shape, where the second
\* took over a cell the first had coloured
C10_Witness ==
    /\ Len(hist) >= 1 /\ chart.kind = "ok" /\ Last.op = "to_string"
    /\ Len(chart.shapes) = 2
    /\ chart.shapes[1][2] # "None" /\ chart.shapes[2][2] = "None"
    /\ LET first == DrawShape(chart, Canvas_new(chart.width, chart.height),
                              chart.shapes[1][1], chart.shapes[1][2])
       IN  \E k \in DOMAIN first.chars :
              /\ first.chars[k].colored
              /\ canvas.chars[k].mask # 0
              /\ ~canvas.chars[k].colored

\* the rounded projection of a sample, before `as u32`
Projected(ch, p) ==
    <<round(linear(x_scale(ch), p[1])), round(linear(y_scale(ch), p[2]))>>

\* v is a number outside [0, hi]
Outside(v, hi) == ~IsNaN(v) /\ (v < 0 \/ v > hi)

\* a discrete shape without the samples that project outside the canvas
Inside(ch, shape) ==
    LET Keep(p) == /\ ~Outside(Projected(ch, p)[1], ch.width)
                   /\ ~Outside(Projected(ch, p)[2], ch.height)
    IN  IF shape.kind = "Continuous" THEN shape
        ELSE [shape EXCEPT !.dt = SelectSeq(shape.dt, Keep)]

\* C11 as claimed, read in the claim's favour for the samples that project to
\* NaN: figures draws a discrete shape as it draws the shape without the
\* samples whose rounded projection is below 0 or above the width (x) or the
\* height (y).
C11_OutsideDropped ==
    (Len(hist) >= 1 /\ chart.kind = "ok" /\ Last.op = "figures") =>
        \A n \in 1 .. Len(chart.shapes) :
            LET sh == chart.shapes[n][1]
                c0 == Canvas_new(chart.width, chart.height)
            IN  DrawShape(chart, c0, sh, chart.shapes[n][2])
                    = DrawShape(chart, c0, Inside(chart, sh), chart.shapes[n][2])

-----------------------------------------------------------------------------
(* The plugin: the three commands plot, hist and xyplot over the Chart.    *)

\* Option<T>: None is the empty sequence, Some(x) the sequence of x alone
None == <<>>
Some(x) == <<x>>
unwrap_or(o, d) == IF o = None THEN d ELSE o[1]

TAB == <<32, 32, 32, 32>>
COLORS == <<"BrightWhite", "BrightRed", "BrightBlue", "BrightYellow", "Cyan">>

\* the nushell values the commands tell apart
VInt(n) == [t |-> "int", v |-> n]
VFloat(n) == [t |-> "float", v |-> n]
VString(s) == [t |-> "string", v |-> s]
VList(vs) == [t |-> "list", v |-> vs]

\* Value::get_type: a scalar's own type; list<T> for a list whose elements
\* all have type T, list<any> otherwise
RECURSIVE get_type(_)
get_type(val) ==
    IF val.t # "list" THEN <<val.t>>
    ELSE LET tys == {get_type(val.v[i]) : i \in 1 .. Len(val.v)}
         IN  <<"list">> \o (IF Cardinality(tys) = 1
                            THEN CHOOSE ty \in tys : TRUE
                            ELSE <<"any">>)

\* `f as u32` of an i64 flag keeps the low 32 bits; the flag values tried are
\* within 0 .. 2^31 - 1, which the cast leaves as they are
I64AsU32(f) == f

\* (n as f32 * 1.7) as u32
Scaled(n) == (n * 17) \div 10

parse_cli_opts(call, dims) ==
    LET height_op == IF call.height = None THEN None
                     ELSE Some(I64AsU32(call.height[1]))
        width_op == IF call.width = None THEN None
                    ELSE Some(I64AsU32(call.width[1]))
        Floor32(v) == IF v < 32 THEN 32 ELSE v
        height == IF dims # None
                  THEN Some(Floor32(unwrap_or(height_op, Scaled(dims[1][2]))))
                  ELSE height_op
        width == IF dims # None
                 THEN Some(Floor32(unwrap_or(width_op, Scaled(dims[1][1]))))
                 ELSE width_op
    IN  [height_op |-> height, width_op |-> width, legend |-> call.legend,
         steps |-> call.steps, bars |-> call.bars, points |-> call.points,
         bins |-> IF call.bins = None THEN None
                  ELSE Some(I64AsU32(call.bins[1])),
         title |-> call.title]

ShapeError ==
    "Shape must be either steps or bars or points, not more than one. Check your flags!"

chart_shape(steps, bars, points, v) ==
    IF steps /\ ~bars /\ ~points
    THEN [ok |-> TRUE, shape |-> [kind |-> "Steps", dt |-> v]]
    ELSE IF ~steps /\ bars /\ ~points
    THEN [ok |-> TRUE, shape |-> [kind |-> "Bars", dt |-> v]]
    ELSE IF ~steps /\ ~bars /\ points
    THEN [ok |-> TRUE, shape |-> [kind |-> "Points", dt |-> v]]
    ELSE IF ~steps /\ ~bars /\ ~points
    THEN [ok |-> TRUE, shape |-> [kind |-> "Lines", dt |-> v]]
    ELSE [ok |-> FALSE, err |-> ShapeError]

check_chart_shape_any(steps, bars, points) == [ok |-> TRUE]

check_chart_shape(steps, bars, points) ==
    IF steps /\ ~bars /\ ~points THEN [ok |-> TRUE]
    ELSE IF ~steps /\ bars /\ ~points THEN [ok |-> TRUE]
    ELSE IF ~steps /\ ~bars /\ points THEN [ok |-> TRUE]
    ELSE IF ~steps /\ ~bars /\ ~points THEN [ok |-> TRUE]
    ELSE [ok |-> FALSE, err |-> ShapeError]

\* f32::MAX and f32::MIN, the seeds of min_max
F32_MAX == INFINITY - 1
F32_MIN == 0 - F32_MAX

RECURSIVE min_max_from(_, _, _)
min_max_from(series, i, acc) ==
    IF i > Len(series) THEN acc
    ELSE min_max_from(series, i + 1,
            <<IF series[i] < acc[1] THEN series[i] ELSE acc[1],
              IF series[i] > acc[2] THEN series[i] ELSE acc[2]>>)

min_max(series) == min_max_from(series, 1, <<F32_MAX, F32_MIN>>)

get_value_type_or_list_length(val) ==
    <<get_type(val), IF val.t = "list" THEN Some(Len(val.v)) ELSE None>>

\* what a handler hands back: a value, an error, or a panic; together with
\* the arguments it gave Chart::new (None when it made no Chart), the Chart it
\* built and that Chart's canvas
Err(msg, new, ch) ==
    [out |-> [kind |-> "Err", msg |-> msg], new |-> new, chart |-> ch,
     canvas |-> NoCanvas]
Panic(at, new) ==
    [out |-> [kind |-> "Panic", at |-> at], new |-> new,
     chart |-> IF new = None THEN NoChart ELSE Panicked, canvas |-> NoCanvas]

check_equality_of_list(l) ==
    LET tl == [i \in 1 .. Len(l) |-> get_value_type_or_list_length(l[i])]
        first_type == tl[1][1]
        first_len_op == tl[1][2]
    IN  IF \E i \in 1 .. Len(l) : tl[i][1] # first_type
        THEN [kind |-> "Err", msg |-> "Can't plot a list of multiple types."]
        ELSE IF \E i \in 1 .. Len(l) : tl[i][2] # first_len_op
        THEN [kind |-> "Err",
              msg |-> "Can't plot a list of differing length lists."]
        ELSE IF first_len_op # None /\ Len(l[1].v) = 0
        THEN [kind |-> "Panic", at |-> "index out of bounds"]
        ELSE IF first_len_op # None
                /\ get_type(l[1].v[1]) \notin {<<"float">>, <<"int">>}
        THEN [kind |-> "Err", msg |-> "Nested list elements not float or int."]
        ELSE [kind |-> "Ok", type |-> first_type, len_op |-> first_len_op]

IsNumber(e) == e.t \in {"int", "float"}

\* the (index, value) pairs of a list of numbers
Enumerated(list) == [i \in 1 .. Len(list) |-> <<i - 1, list[i].v>>]

Firsts(v) == [i \in 1 .. Len(v) |-> v[i][1]]
Seconds(v) == [i \in 1 .. Len(v) |-> v[i][2]]

\* histogram(data, min, max, bins): the range [min, max] cut into `bins` bins
\* of equal width, half-open but for the last; one point (start of the bin,
\* number of values in it) per bin.  The data tried make the width whole.
histogram(data, min, max, bins) ==
    LET step == (max - min) \div bins
        Bucket(y) == IF step = 0 THEN 0
                     ELSE IF y = max THEN bins - 1
                     ELSE (y - min) \div step
        Count(b) == Cardinality({i \in 1 .. Len(data) :
                        /\ data[i][2] >= min
                        /\ data[i][2] <= max
                        /\ Bucket(data[i][2]) = b})
    IN  [b \in 1 .. bins |-> <<min + (b - 1) * step, Count(b - 1)>>]

\* s.replace('\n', "\n" + TAB) over glyphs lo .. hi of s
RECURSIVE IndentFrom(_, _, _)
IndentFrom(s, lo, hi) ==
    IF lo > hi THEN <<>>
    ELSE IF lo = hi
    THEN (IF s[lo] = NL THEN <<NL>> \o Bare(TAB) ELSE <<s[lo]>>)
    ELSE LET mid == (lo + hi) \div 2
         IN  IndentFrom(s, lo, mid) \o IndentFrom(s, mid + 1, hi)

Indent(s) == Bind(s, LAMBDA a : IndentFrom(a, 1, Len(a)))

\* "---" in colour col
Dashes(col) == [i \in 1 .. 3 |-> [cp |-> 45, fg |-> col]]

\* format!("Line {}: {}", n, "---".color(col)) followed by `sep`
LegendEntry(n, col, sep) ==
    Bare(<<76, 105, 110, 101, 32>> \o Digits(n) \o <<58, 32>>)
        \o Dashes(col) \o Bare(sep)

RECURSIVE LegendText(_, _)
LegendText(entries, i) ==
    IF i > Len(entries) THEN <<>>
    ELSE LegendEntry(entries[i].n, entries[i].fg, entries[i].sep)
            \o LegendText(entries, i + 1)

\* the Chart rendered and wrapped into the value a handler returns: indented,
\* under its title, the legend entries after it
Rendered(ch, new, title, title_first, legend) ==
    IF figures_panics(ch) THEN Panic("figures", new)
    ELSE LET c == to_string_canvas(ch, Canvas_new(ch.width, ch.height))
             Titled(s) == IF title = None THEN s
                          ELSE Bare(TAB \o title[1] \o <<10>>) \o s
             Wrap(s) == IF title_first
                        THEN Bare(TAB) \o Indent(Titled(s))
                        ELSE Titled(Bare(TAB) \o Indent(s))
         IN  Bind(c, LAMBDA a :
                 [out |-> [kind |-> "Ok",
                           text |-> Wrap(Decorate(ch, a))
                                        \o LegendText(legend, 1),
                           legend |-> legend],
                  new |-> new, chart |-> ch, canvas |-> a])

\* the width and height a handler gives Chart::new
DefaultWidth == 200
DefaultHeight == 50
DefaultBins == 20

NotANumber == "Got {}, need integer or float."
TooManyLists == "Nested list can't contain more than 5 inner lists."

\* the legend of a flat plot: "Line 1: ---" in white
WhiteLegend == <<[n |-> 1, fg |-> "White", sep |-> <<>>]>>
\* the legend of a nested plot: one entry per inner list, in the palette's order
PaletteLegend(data) ==
    [l \in 1 .. Len(data) |-> [n |-> l, fg |-> COLORS[l], sep |-> <<32>>]]

\* Chart::new(..).lineplot(&chart_shape(..)?).to_string() and what the flat
\* handlers and xyplot do with the text
PlotOne(opts, min, max, chart_data, title_first, legend) ==
    LET new == Some(<<unwrap_or(opts.width_op, DefaultWidth),
                      unwrap_or(opts.height_op, DefaultHeight)>>)
        ch0 == Chart_new(new[1][1], new[1][2], min, max)
        cs == chart_shape(opts.steps, opts.bars, opts.points, chart_data)
    IN  IF ch0.kind = "panicked" THEN Panic("Chart::new", new)
        ELSE IF ~cs.ok THEN Err(cs.err, new, ch0)
        ELSE Rendered(lineplot(ch0, cs.shape), new, opts.title, title_first,
                      IF opts.legend THEN legend ELSE <<>>)

\* shapes.iter().enumerate().fold(&mut chart, |chart, (i, shape)|
\*     chart.linecolorplot(shape, COLORS[i]))
RECURSIVE FoldShapes(_, _, _)
FoldShapes(ch, shapes, i) ==
    IF i > Len(shapes) THEN ch
    ELSE FoldShapes(linecolorplot(ch, shapes[i], COLORS[i]), shapes, i + 1)

\* check_chart_shape(..)?, chart_shape(..).unwrap() per series, the fold over
\* Chart::new(..), to_string() and what the nested handlers do with the text
PlotMany(opts, min, max, chart_data) ==
    LET new == Some(<<unwrap_or(opts.width_op, DefaultWidth),
                      unwrap_or(opts.height_op, DefaultHeight)>>)
        ck == check_chart_shape(opts.steps, opts.bars, opts.points)
        cs == [i \in 1 .. Len(chart_data) |->
                  chart_shape(opts.steps, opts.bars, opts.points, chart_data[i])]
        ch0 == Chart_new(new[1][1], new[1][2], min, max)
    IN  IF ~ck.ok THEN Err(ck.err, None, NoChart)
        ELSE IF \E i \in 1 .. Len(cs) : ~cs[i].ok THEN Panic("chart_shape.unwrap()", None)
        ELSE IF ch0.kind = "panicked" THEN Panic("Chart::new", new)
        ELSE Rendered(FoldShapes(ch0, [i \in 1 .. Len(cs) |-> cs[i].shape], 1),
                      new, opts.title, FALSE,
                      IF opts.legend THEN PaletteLegend(chart_data) ELSE <<>>)

\* the (index, value) pairs of every inner list
NestedData(values) == [i \in 1 .. Len(values) |-> Enumerated(values[i].v)]

\* some inner list holds a value that is neither an integer nor a float
BadInner(values) ==
    \E i \in 1 .. Len(values) :
        \E k \in 1 .. Len(values[i].v) : ~IsNumber(values[i].v[k])

RECURSIVE FoldMin(_, _, _)
FoldMin(xs, i, acc) ==
    IF i > Len(xs) THEN acc ELSE FoldMin(xs, i + 1, FMin(acc, xs[i]))

CommandPlot_plot(call, dims, input) ==
    LET opts == parse_cli_opts(call, dims)
        values == input.v
        v == Enumerated(values)
        min_max_x == min_max(Firsts(v))
    IN  IF \E i \in 1 .. Len(values) : ~IsNumber(values[i])
        THEN Panic("v.unwrap()", None)
        ELSE PlotOne(opts, min_max_x[1], min_max_x[2], v, TRUE, WhiteLegend)

CommandPlot_plot_nested(call, dims, input) ==
    LET opts == parse_cli_opts(call, dims)
        values == input.v
        data == NestedData(values)
        min_all == [i \in 1 .. Len(data) |-> min_max(Firsts(data[i]))[1]]
        max_all == [i \in 1 .. Len(data) |-> min_max(Firsts(data[i]))[2]]
    IN  IF Len(values) > 5 THEN Err(TooManyLists, None, NoChart)
        ELSE IF BadInner(values) THEN Err(NotANumber, None, NoChart)
        ELSE PlotMany(opts, FoldMin(min_all, 1, INFINITY), max_by(max_all),
                      data)

CommandHist_plot(call, dims, input) ==
    LET opts == parse_cli_opts(call, dims)
        values == input.v
        v == Enumerated(values)
        mm == min_max(Seconds(v))
        chart_data == histogram(v, mm[1], mm[2],
                                unwrap_or(opts.bins, DefaultBins))
    IN  IF \E i \in 1 .. Len(values) : ~IsNumber(values[i])
        THEN Panic("v.unwrap()", None)
        ELSE PlotOne(opts, mm[1], mm[2], chart_data, TRUE, WhiteLegend)

\* the least and the greatest value of all the inner lists
RECURSIVE Extent(_, _, _)
Extent(data, i, acc) ==
    IF i > Len(data) THEN acc
    ELSE LET mm == min_max(Seconds(data[i]))
         IN  Extent(data, i + 1,
                    IF i = 1 THEN mm
                    ELSE <<IF mm[1] < acc[1] THEN mm[1] ELSE acc[1],
                           IF mm[2] > acc[2] THEN mm[2] ELSE acc[2]>>)

CommandHist_plot_nested(call, dims, input) ==
    LET opts == parse_cli_opts(call, dims)
        values == input.v
        data == NestedData(values)
        mm == Extent(data, 1, <<0, 0>>)
        hist_data == [i \in 1 .. Len(data) |->
                         histogram(data[i], mm[1], mm[2],
                                   unwrap_or(opts.bins, DefaultBins))]
    IN  IF Len(values) > 5 THEN Err(TooManyLists, None, NoChart)
        ELSE IF BadInner(values) THEN Err(NotANumber, None, NoChart)
        ELSE PlotMany(opts, mm[1], mm[2], hist_data)

CommandXyplot_plot(call, dims, input) ==
    Err("Doesn't make sense to plot an xyplot with a single list of values.",
        None, NoChart)

CommandXyplot_plot_nested(call, dims, input) ==
    LET opts == parse_cli_opts(call, dims)
        values == input.v
        data == NestedData(values)
        mm == min_max(Seconds(data[1]))
        xy == [i \in 1 .. Len(data[1]) |-> <<data[1][i][2], data[2][i][2]>>]
    IN  IF Len(values) > 5 THEN Err(TooManyLists, None, NoChart)
        ELSE IF BadInner(values) THEN Err(NotANumber, None, NoChart)
        ELSE IF Len(data) # 2
        THEN Err("xyplot requires a nested list of length 2.", None, NoChart)
        ELSE PlotOne(opts, mm[1], mm[2], xy, FALSE, PaletteLegend(data))

plot(cmd, call, dims, input) ==
    IF cmd = "plot" THEN CommandPlot_plot(call, dims, input)
    ELSE IF cmd = "hist" THEN CommandHist_plot(call, dims, input)
    ELSE CommandXyplot_plot(call, dims, input)

plot_nested(cmd, call, dims, input) ==
    IF cmd = "plot" THEN CommandPlot_plot_nested(call, dims, input)
    ELSE IF cmd = "hist" THEN CommandHist_plot_nested(call, dims, input)
    ELSE CommandXyplot_plot_nested(call, dims, input)

\* run of the command cmd: the three commands' run differ in nothing but the
\* handlers they call
run(cmd, call, dims, input) ==
    IF input.t # "list"
    THEN Err("Input type should be a list: {}.", None, NoChart)
    ELSE IF Len(input.v) = 0
    THEN Err("Can't plot a zero element list.", None, NoChart)
    ELSE LET eq == check_equality_of_list(input.v)
         IN  IF eq.kind = "Err" THEN Err(eq.msg, None, NoChart)
             ELSE IF eq.kind = "Panic" THEN Panic(eq.at, None)
             ELSE IF eq.len_op # None THEN plot_nested(cmd, call, dims, input)
             ELSE IF eq.type \in {<<"float">>, <<"int">>}
             THEN plot(cmd, call, dims, input)
             ELSE Err("List type is {}, but should be float or int.",
                      None, NoChart)

-----------------------------------------------------------------------------
(* The plugin as a state machine: one action per command.  A call is        *)
(* served on its own, from nothing but its flags, the terminal and its      *)
(* input; the state is the call and what it came to.                        *)

\* --width and --height: absent, just below the floor of Chart::new, on it
FlagSizes == {None, Some(31), Some(32)}
\* term_size::dimensions(): no terminal, or a terminal of 10 columns by 30
\* rows, whose scaled width is below 32 and whose scaled height is above
Terminals == {None, Some(<<10, 30>>)}
Titles == {None, Some(<<116>>)}
BinCounts == {None, Some(2)}

AllCalls ==
    [width : FlagSizes, height : FlagSizes, legend : BOOLEAN,
     steps : BOOLEAN, bars : BOOLEAN, points : BOOLEAN,
     title : Titles, bins : BinCounts]

\* the calls tried: every combination of sizes and legend without a shape
\* flag; every combination of shape flags and legend at 32 by 32; a title and
\* a bin count at 32 by 32 with a legend
Calls ==
    {c \in AllCalls :
        /\ (c.steps \/ c.bars \/ c.points) =>
               c.width = Some(32) /\ c.height = Some(32)
        /\ (c.title # None \/ c.bins # None) =>
               /\ c.width = Some(32) /\ c.height = Some(32) /\ c.legend
               /\ ~c.steps /\ ~c.bars /\ ~c.points}

\* the inputs tried, which a call names by their place in this list: 1 not a
\* list, 2 empty, 3 integers, 4 floats, 5 mixed types, 6 strings, 7 two inner
\* lists, 8 inner lists of differing lengths, 9 empty inner lists, 10 six
\* inner lists, 11 three inner lists, 12 inner lists of mixed types, 13 inner
\* lists of strings
Inputs ==
    << VInt(1),
       VList(<<>>),
       VList(<<VInt(0), VInt(20), VInt(40)>>),
       VList(<<VFloat(0), VFloat(40)>>),
       VList(<<VInt(0), VString("a")>>),
       VList(<<VString("a"), VString("b")>>),
       VList(<<VList(<<VInt(0), VInt(20), VInt(40)>>),
               VList(<<VInt(40), VInt(0), VInt(20)>>)>>),
       VList(<<VList(<<VInt(0), VInt(20)>>), VList(<<VInt(40)>>)>>),
       VList(<<VList(<<>>), VList(<<>>)>>),
       VList(<<VList(<<VInt(0)>>), VList(<<VInt(20)>>), VList(<<VInt(40)>>),
               VList(<<VInt(0)>>), VList(<<VInt(20)>>), VList(<<VInt(40)>>)>>),
       VList(<<VList(<<VInt(0), VInt(40)>>), VList(<<VInt(20), VInt(20)>>),
               VList(<<VInt(40), VInt(0)>>)>>),
       VList(<<VList(<<VInt(0), VString("a")>>),
               VList(<<VInt(20), VString("b")>>)>>),
       VList(<<VList(<<VString("a")>>), VList(<<VString("b")>>)>>) >>

PluginInit ==
    /\ chart = NoChart
    /\ canvas = NoCanvas
    /\ hist = <<>>
    /\ out = [kind |-> "None"]

Invoke(cmd) ==
    /\ hist = <<>>
    /\ \E call \in Calls, dims \in Terminals, k \in 1 .. Len(Inputs) :
          LET r == run(cmd, call, dims, Inputs[k])
          IN  /\ out' = r.out
              /\ chart' = r.chart
              /\ canvas' = r.canvas
              /\ hist' = <<[op |-> cmd, call |-> call, dims |-> dims,
                            input |-> k, new |-> r.new]>>

Plot == Invoke("plot")
Hist == Invoke("hist")
Xyplot == Invoke("xyplot")

PluginNext == Plot \/ Hist \/ Xyplot

SpecPlugin == PluginInit /\ [][PluginNext]_vars

-----------------------------------------------------------------------------
(* Properties of the plugin.                                               *)

\* a call of one of the three commands has been served
Served == Len(hist) = 1 /\ Last.op \in {"plot", "hist", "xyplot"}
\* the input of that call
Input == Inputs[Last.input]

\* C12 as claimed: whatever the --width and --height flags and whether or not
\* the terminal size is detected, the width and the height a command gives
\* Chart::new are both at least 32, and the command never ends in the panic
\* of Chart::new.
C12_SizesAtLeast32 ==
    Served =>
        /\ Last.new # None => (Last.new[1][1] >= 32 /\ Last.new[1][2] >= 32)
        /\ ~(out.kind = "Panic" /\ out.at = "Chart::new")

\* the inputs run is to turn down: an empty list, a list of values of
\* differing types, a nested list whose inner lists differ in length or are
\* empty, a nested list of more than 5 inner lists
IsNested(val) ==
    /\ val.t = "list"
    /\ Len(val.v) >= 1
    /\ \A i \in 1 .. Len(val.v) : val.v[i].t = "list"

Rejectable(val) ==
    /\ val.t = "list"
    /\ \/ Len(val.v) = 0
       \/ \E i, k \in 1 .. Len(val.v) : get_type(val.v[i]) # get_type(val.v[k])
       \/ /\ IsNested(val)
          /\ \/ \E i, k \in 1 .. Len(val.v) : Len(val.v[i].v) # Len(val.v[k].v)
             \/ \A i \in 1 .. Len(val.v) : Len(val.v[i].v) = 0
             \/ Len(val.v) > 5

\* C13 as claimed: on an empty list, on a list of values of differing types,
\* on a nested list whose inner lists differ in length or are empty, and on a
\* nested list of more than 5 inner lists, run of plot, hist and xyplot
\* returns an error: it neither panics nor returns a rendered string.
C13_BadInputIsAnError ==
    (Served /\ Rejectable(Input)) => out.kind = "Err"

\* the number of shape flags of a call
FlagCount(c) ==
    (IF c.steps THEN 1 ELSE 0) + (IF c.bars THEN 1 ELSE 0)
        + (IF c.points THEN 1 ELSE 0)

\* the shape kind a call with at most one shape flag asks for
FlagKind(c) ==
    IF c.steps THEN "Steps" ELSE IF c.bars THEN "Bars"
    ELSE IF c.points THEN "Points" ELSE "Lines"

\* C14: chart_shape gives the shape of the one flag set, Lines when none is
\* set and an error when two or more are set; check_chart_shape is Ok exactly
\* when chart_shape is; so the unwrap of chart_shape in plot_nested never
\* panics, and every series of a rendered plot has the shape the flags name.
C14_ShapeFlags ==
    Served =>
        LET c == Last.call
            cs == chart_shape(c.steps, c.bars, c.points, <<>>)
        IN  /\ cs.ok <=> FlagCount(c) <= 1
            /\ cs.ok => cs.shape.kind = FlagKind(c)
            /\ check_chart_shape(c.steps, c.bars, c.points).ok <=> cs.ok
            /\ ~(out.kind = "Panic" /\ out.at = "chart_shape.unwrap()")
            /\ out.kind = "Ok" =>
                  \A i \in 1 .. Len(chart.shapes) :
                      chart.shapes[i][1].kind = FlagKind(c)

\* plot has rendered a nested list of three series as steps
C14_Witness ==
    /\ Served
    /\ Last.op = "plot"
    /\ IsNested(Input)
    /\ Last.call.steps
    /\ out.kind = "Ok"
    /\ Len(chart.shapes) = 3
    /\ \A i \in 1 .. 3 : chart.shapes[i][1].kind = "Steps"

\* a legend entry in colour fg matches a series drawn in colour col; a series
\* drawn without a colour shows in the terminal's own foreground, which is
\* read in the claim's favour as matching a white entry
SameColour(fg, col) == fg = col \/ (col = "None" /\ fg = "White")

\* C15 as claimed: with the legend flag, the text a command returns carries
\* one "Line N: ---" entry per series registered on the Chart, numbered 1 to
\* the number of series, entry N in the colour series N was drawn with.
C15_LegendPerSeries ==
    (Served /\ Last.call.legend /\ out.kind = "Ok") =>
        /\ Len(out.legend) = Len(chart.shapes)
        /\ \A n \in 1 .. Len(out.legend) :
              /\ out.legend[n].n = n
              /\ n <= Len(chart.shapes) =>
                    SameColour(out.legend[n].fg, chart.shapes[n][2])

-----------------------------------------------------------------------------
(* The cells of a Canvas under longer runs of operations: every operation  *)
(* of the Canvas on the dots of two neighbouring cells and on one dot far  *)
(* to the right of them.                                                   *)

\* number of operations applied to the Canvas
MaxCellOps == 3

\* two dots of cell (0, 0), one of cell (1, 0), and the first dot whose cell
\* column, 65536, is beyond a u16
CellPool == {<<0, 0>>, <<1, 0>>, <<2, 0>>, <<131072, 0>>}

\* Canvas::new(w, h): the smallest canvas, and the narrowest one whose width
\* in cells, 65536, is beyond a u16
CellSizes == {<<0, 0>>, <<131072, 0>>}

CellsInit ==
    /\ \E sz \in CellSizes :
          /\ canvas = Canvas_new(sz[1], sz[2])
          /\ hist = <<[op |-> "new", w |-> sz[1], h |-> sz[2]]>>
    /\ chart = NoChart
    /\ out = <<>>

\* the Canvas becomes c by the call rec
CellStep(rec, c) ==
    /\ Len(hist) <= MaxCellOps
    /\ canvas' = c
    /\ hist' = Append(hist, rec)
    /\ UNCHANGED <<chart, out>>

CellSet ==
    \E d \in CellPool :
        CellStep([op |-> "set", x |-> d[1], y |-> d[2]],
                 set(canvas, d[1], d[2]))

CellSetColored ==
    \E d \in CellPool, col \in Colors :
        CellStep([op |-> "set_colored", x |-> d[1], y |-> d[2], color |-> col],
                 set_colored(canvas, d[1], d[2], col))

CellSetChar ==
    \E d \in CellPool, l \in Letters :
        CellStep([op |-> "set_char", x |-> d[1], y |-> d[2], ch |-> l],
                 set_char(canvas, d[1], d[2], l))

CellText ==
    \E s \in Texts :
        CellStep([op |-> "text", x |-> 0, y |-> 0, max_width |-> 2, text |-> s],
                 text(canvas, 0, 0, 2, s))

CellUnset ==
    \E d \in CellPool :
        CellStep([op |-> "unset", x |-> d[1], y |-> d[2]],
                 unset(canvas, d[1], d[2]))

CellToggle ==
    \E d \in CellPool :
        CellStep([op |-> "toggle", x |-> d[1], y |-> d[2]],
                 toggle(canvas, d[1], d[2]))

CellLine ==
    CellStep([op |-> "line", x |-> 0, y |-> 0, x2 |-> 2, y2 |-> 0],
             line(canvas, 0, 0, 2, 0))

CellLineColored ==
    \E col \in Colors :
        CellStep([op |-> "line_colored", x |-> 0, y |-> 0, x2 |-> 2, y2 |-> 0,
                  color |-> col],
                 line_colored(canvas, 0, 0, 2, 0, col))

CellClear == CellStep([op |-> "clear"], clear(canvas))

CellsNext ==
    \/ CellSet
    \/ CellSetColored
    \/ CellSetChar
    \/ CellText
    \/ CellUnset
    \/ CellToggle
    \/ CellLine
    \/ CellLineColored
    \/ CellClear

SpecCells == CellsInit /\ [][CellsNext]_vars

\* what the call rec writes to the character, flag and colour of cell k: the
\* empty sequence if it writes none, else the one triple it leaves there
WriteOf(rec, k) ==
    IF rec.op = "set" /\ CellKey(rec.x, rec.y) = k
    THEN <<<<32, FALSE, "White">>>>
    ELSE IF rec.op = "set_colored" /\ CellKey(rec.x, rec.y) = k
    THEN <<<<32, TRUE, rec.color>>>>
    ELSE IF rec.op = "set_char" /\ CellKey(rec.x, rec.y) = k
    THEN <<<<rec.ch, FALSE, "White">>>>
    ELSE IF rec.op = "text"
    THEN LET on == {i \in 1 .. Len(rec.text) :
                       /\ (i - 1) * 2 <= rec.max_width
                       /\ CellKey(rec.x + (i - 1) * 2, rec.y) = k}
         IN  IF on = {} THEN <<>>
             ELSE <<<<rec.text[SetMax(on)], FALSE, "White">>>>
    ELSE IF rec.op \in {"line", "line_colored"}
    THEN LET hit == \E i \in 0 .. LineLen(rec.x, rec.y, rec.x2, rec.y2) :
                       LET d == LineDot(rec.x, rec.y, rec.x2, rec.y2, i)
                       IN  CellKey(d[1], d[2]) = k
         IN  IF ~hit THEN <<>>
             ELSE IF rec.op = "line" THEN <<<<32, FALSE, "White">>>>
             ELSE <<<<32, TRUE, rec.color>>>>
    ELSE <<>>

\* the triple the most recent write to cell k among the calls 1 .. i left;
\* the empty sequence if there is none.  With since_clear the search stops at
\* the most recent clear.
RECURSIVE LastWrite(_, _, _)
LastWrite(k, i, since_clear) ==
    IF i = 0 THEN <<>>
    ELSE IF since_clear /\ hist[i].op = "clear" THEN <<>>
    ELSE IF WriteOf(hist[i], k) # <<>> THEN WriteOf(hist[i], k)
    ELSE LastWrite(k, i - 1, since_clear)

\* the character, flag and colour of the cell at k
Triple(k) == <<canvas.chars[k].ch, canvas.chars[k].colored, canvas.chars[k].color>>

\* C16 as claimed: after any calls on the Canvas, the character, flag and
\* colour of each cell are what the most recent set, set_colored or set_char
\* on that cell wrote, whatever unset and toggle did in between; so a coloured
\* cell never carries an override character.
C16_LastWriteWins ==
    \A k \in DOMAIN canvas.chars :
        /\ LastWrite(k, Len(hist), FALSE) # <<>> =>
              Triple(k) = LastWrite(k, Len(hist), FALSE)[1]
        /\ canvas.chars[k].colored => canvas.chars[k].ch = 32

\* C16 amended: the character, flag and colour of each cell are what the most
\* recent set, set_colored or set_char on that cell since the last clear
\* wrote, and (' ', false, White) if there was none since; so a coloured cell
\* never carries an override character.
C16_LastWriteSinceClear ==
    \A k \in DOMAIN canvas.chars :
        /\ Triple(k) = (IF LastWrite(k, Len(hist), TRUE) = <<>>
                        THEN <<32, FALSE, "White">>
                        ELSE LastWrite(k, Len(hist), TRUE)[1])
        /\ canvas.chars[k].colored => canvas.chars[k].ch = 32

\* a coloured dot, then another dot of the same cell set with set, a third
\* unset: the cell holds the two dots, uncoloured
C16_Witness ==
    /\ Len(hist) = 4
    /\ hist[2].op = "set_colored" /\ hist[2].x = 0
    /\ hist[3].op = "set" /\ hist[3].x = 1
    /\ hist[4].op = "unset" /\ hist[4].x = 2
    /\ canvas.chars[<<0, 0>>].mask = BitOr(Pixel(0, 0), Pixel(1, 0))
    /\ ~canvas.chars[<<0, 0>>].colored

\* C17 as claimed: rows() of a Canvas built with new(w, h) returns
\* max(h / 4, largest touched cell row) + 1 strings of
\* max(w / 2, largest touched cell column) + 1 glyphs each, a cell being
\* touched when it has an entry in the cell map, and shows every touched cell
\* at its place.
C17_RowsExtent ==
    (Len(hist) >= 1 /\ hist[1].op = "new") =>
        LET touched == DOMAIN canvas.chars
            nrows == Max(hist[1].h \div 4, SetMax({k[2] : k \in touched})) + 1
            ncols == Max(hist[1].w \div 2, SetMax({k[1] : k \in touched})) + 1
            rs == rows(canvas)
        IN  /\ Len(rs) = nrows
            /\ \A y \in 1 .. Len(rs) : Len(rs[y]) = ncols
            /\ \A k \in touched :
                  rs[k[2] + 1][k[1] + 1] = Glyph(canvas.chars[k])

-----------------------------------------------------------------------------
(* Further properties of the Chart.                                        *)

\* every dot set on canvas c is set on canvas d
KeepsDots(c, d) ==
    \A k \in DOMAIN c.chars :
        c.chars[k].mask # 0 =>
            /\ k \in DOMAIN d.chars
            /\ \A b \in {1, 2, 4, 8, 16, 32, 64, 128} :
                  BitTest(c.chars[k].mask, b) => BitTest(d.chars[k].mask, b)

\* C18: no operation of a Chart (lineplot, linecolorplot, figures, axis,
\* to_string, nice with its borders) clears a dot: every dot set on the
\* Chart's canvas before the operation is set after it.
C18_DotsNeverCleared ==
    [][(chart.kind = "ok" /\ chart'.kind = "ok") => KeepsDots(canvas, canvas')]_vars

\* the axis drawn on a Chart without shapes, a registration that widened the
\* y range from the empty one, then a render: the dots of the axis are still
\* set, next to the dots of the shape
C18_Witness ==
    /\ Len(hist) = 4 /\ chart.kind = "ok"
    /\ hist[2].op = "axis" /\ hist[3].op = "lineplot"
    /\ hist[4].op = "to_string"
    /\ chart.ymin < chart.ymax
    /\ LET fresh == Canvas_new(chart.width, chart.height)
           before == axis([chart EXCEPT !.ymin = INFINITY,
                                        !.ymax = NEG_INFINITY,
                                        !.shapes = <<>>], fresh)
       IN  /\ \E k \in DOMAIN before.chars : before.chars[k].mask # 0
           /\ KeepsDots(before, canvas)
           /\ ~KeepsDots(canvas, before)

\* the dots set on the canvas c of the Chart ch
ChartDots(ch, c) ==
    {d \in (0 .. ch.width) \X (0 .. ch.height) : get(c, d[1], d[2])}

\* the dots of the horizontal segment between x = xa and x = xb at y, and of
\* the vertical segment between y = ya and y = yb at x
HSegment(xa, xb, y) == {<<x, y>> : x \in Min(xa, xb) .. Max(xa, xb)}
VSegment(x, ya, yb) == {<<x, y>> : y \in Min(ya, yb) .. Max(ya, yb)}

\* the dots C19 gives the pair (p1, p2) of a Steps or a Bars shape
PairDots(ch, kind, p1, p2) ==
    HSegment(p1[1], p2[1], p2[2]) \cup VSegment(p1[1], p1[2], p2[2])
        \cup (IF kind = "Bars"
              THEN VSegment(p1[1], ch.height, p1[2])
                       \cup VSegment(p2[1], ch.height, p2[2])
              ELSE {})

ShapeDots(ch, kind, pts) ==
    UNION {PairDots(ch, kind, pts[i], pts[i + 1]) : i \in 1 .. (Len(pts) - 1)}

\* C19: figures draws a Steps shape as, for every two consecutive projected
\* points p1 and p2, the dots of the horizontal segment (p1.x, p2.y) to
\* (p2.x, p2.y) and of the vertical segment (p1.x, p1.y) to (p1.x, p2.y), and
\* no other dot; a Bars shape as those and the dots of the vertical segments
\* from the height down at p1.x to p1.y and at p2.x to p2.y; with a colour and
\* without one the same dots are set.
C19_StepsAndBars ==
    (Len(hist) >= 1 /\ chart.kind = "ok" /\ Last.op = "figures") =>
        \A n \in 1 .. Len(chart.shapes) :
            LET sh == chart.shapes[n][1]
                c0 == Canvas_new(chart.width, chart.height)
                want == ShapeDots(chart, sh.kind, Points(chart, sh))
            IN  sh.kind \in {"Steps", "Bars"} =>
                    /\ ChartDots(chart, DrawShape(chart, c0, sh, "None")) = want
                    /\ ChartDots(chart, DrawShape(chart, c0, sh, "BrightRed"))
                           = want
                    /\ want \subseteq ChartDots(chart, canvas)

\* figures has drawn a Steps shape without a colour and a Bars shape with
\* one, each of three projected points
C19_Witness ==
    /\ Len(hist) = 4 /\ chart.kind = "ok" /\ Last.op = "figures"
    /\ Len(chart.shapes) = 2
    /\ chart.shapes[1][1].kind = "Steps" /\ chart.shapes[1][2] = "None"
    /\ chart.shapes[2][1].kind = "Bars" /\ chart.shapes[2][2] # "None"
    /\ Len(Points(chart, chart.shapes[1][1])) = 3
    /\ Len(Points(chart, chart.shapes[2][1])) = 3
    /\ ShapeDots(chart, "Steps", Points(chart, chart.shapes[1][1])) # {}

\* the y values of the samples of the discrete shape sh inside the x range
InDomainYs(sh) == {sh.dt[n][2] : n \in InXRange(chart, sh.dt)}

\* an Auto-range Chart all of whose shapes are discrete, none with a NaN
\* among the y values inside the x range
DiscreteAuto ==
    /\ chart.kind = "ok" /\ chart.y_ranging = "AutoRange"
    /\ Len(chart.shapes) >= 1
    /\ \A n \in 1 .. Len(chart.shapes) :
          /\ chart.shapes[n][1].kind # "Continuous"
          /\ \A y \in InDomainYs(chart.shapes[n][1]) : ~IsNaN(y)

SetMin(S) == CHOOSE v \in S : \A w \in S : v <= w

-----------------------------------------------------------------------------
(* line and line_colored as the calls they make: the dots the loop hands   *)
(* to set / set_colored, in order, with endpoints up to the first run      *)
(* length whose products leave the u32 range.                              *)

\* the endpoints of the short lines of LinePairs, a line of 65536 dots (the
\* longest whose products all fit a u32), and lines of 65537 dots to the
\* right, to the left and down
LineCalls ==
    LinePairs \cup {<<<<0, 0>>, <<65535, 0>>>>,
                    <<<<0, 0>>, <<65536, 0>>>>,
                    <<<<65536, 0>>, <<0, 0>>>>,
                    <<<<0, 0>>, <<0, 65536>>>>}

LineInit ==
    /\ canvas = NoCanvas
    /\ hist = <<>>
    /\ chart = NoChart
    /\ out = <<>>

\* the first iteration of the loop whose product passes u32::MAX, r + 1 if
\* there is none
FirstOverflow(x1, y1, x2, y2) ==
    LET r == LineLen(x1, y1, x2, y2)
    IN  Bind({i \in 0 .. r : LineOverflows(x1, y1, x2, y2, i)},
             LAMBDA bad : IF bad = {} THEN r + 1
                          ELSE CHOOSE i \in bad : \A j \in bad : i <= j)

\* one run of the loop `for i in 0..=r`: with overflow checks the loop ends
\* in a panic at the first iteration whose product passes u32::MAX, without
\* them every iteration runs on the wrapped products
LineCall(rec, colored) ==
    LET r == LineLen(rec.x, rec.y, rec.x2, rec.y2)
        done == IF rec.overflow_checks
                THEN FirstOverflow(rec.x, rec.y, rec.x2, rec.y2)
                ELSE r + 1
    IN  /\ hist = <<>>
        /\ hist' = <<rec>>
        /\ out' = Bind(done, LAMBDA n :
                     [kind |-> IF n <= r THEN "Panic" ELSE "Ok",
                      colored |-> colored,
                      calls |-> SubSeq([i \in 1 .. n |->
                                           LineDotU32(rec.x, rec.y, rec.x2,
                                                      rec.y2, i - 1)], 1, n)])
        /\ UNCHANGED <<canvas, chart>>

DrawLine ==
    \E e \in LineCalls, checks \in BOOLEAN :
        LineCall([op |-> "line", x |-> e[1][1], y |-> e[1][2],
                  x2 |-> e[2][1], y2 |-> e[2][2], overflow_checks |-> checks],
                 FALSE)

DrawLineColored ==
    \E e \in LineCalls, checks \in BOOLEAN, col \in Colors :
        LineCall([op |-> "line_colored", x |-> e[1][1], y |-> e[1][2],
                  x2 |-> e[2][1], y2 |-> e[2][2], color |-> col,
                  overflow_checks |-> checks],
                 TRUE)

LineNext == DrawLine \/ DrawLineColored

SpecLine == LineInit /\ [][LineNext]_vars

\* (i * d) div r in the integers, for 0 <= d <= r and 0 <= i <= r; the case
\* d = r is written without the product
ExactMulDiv(i, d, r) == IF d = r THEN i ELSE (i * d) \div r

\* C21 as claimed: with r = max(|x2 - x1|, |y2 - y1|), line performs r + 1
\* steps and sets exactly the dots (x1 + sx * ((i * |dx|) div r),
\* y1 + sy * ((i * |dy|) div r)) for i = 0 .. r, one at each step i; both
\* endpoints are set, every dot set lies in the bounding box of the
\* endpoints, consecutive dots differ by at most 1 in each axis, and
\* line_colored sets the same dots, coloured.
C21_LineDots ==
    hist # <<>> =>
        LET c == hist[1]
            dx == Abs(c.x2 - c.x)
            dy == Abs(c.y2 - c.y)
            sx == IF c.x <= c.x2 THEN 1 ELSE -1
            sy == IF c.y <= c.y2 THEN 1 ELSE -1
            r == Max(dx, dy)
            want(i) == <<c.x + sx * (IF dx = 0 THEN 0
                                     ELSE ExactMulDiv(i, dx, r)),
                         c.y + sy * (IF dy = 0 THEN 0
                                     ELSE ExactMulDiv(i, dy, r))>>
            steps == Len(out.calls)
        IN  /\ out.kind = "Ok"
            /\ steps = r + 1
            /\ \A n \in 1 .. steps : out.calls[n] = want(n - 1)
            /\ \E n \in 1 .. steps : out.calls[n] = <<c.x, c.y>>
            /\ \E n \in 1 .. steps : out.calls[n] = <<c.x2, c.y2>>
            /\ \A n \in 1 .. steps :
                  /\ Min(c.x, c.x2) <= out.calls[n][1]
                  /\ out.calls[n][1] <= Max(c.x, c.x2)
                  /\ Min(c.y, c.y2) <= out.calls[n][2]
                  /\ out.calls[n][2] <= Max(c.y, c.y2)
            /\ \A n \in 1 .. steps - 1 :
                  /\ Abs(out.calls[n + 1][1] - out.calls[n][1]) <= 1
                  /\ Abs(out.calls[n + 1][2] - out.calls[n][2]) <= 1
            /\ out.colored = (c.op = "line_colored")

-----------------------------------------------------------------------------
\* C22 as claimed: dots are independent.  set(x, y), unset(x, y) and
\* toggle(x, y) leave get(x', y') as it was for every other dot (x', y'),
\* over the whole 32-bit range of dot coordinates.
C22_DotsIndependent ==
    [][\A d \in CellPool :
          (/\ Len(hist') = Len(hist) + 1
           /\ Last'.op \in {"set", "unset", "toggle"}
           /\ <<Last'.x, Last'.y>> # d)
          => get(canvas', d[1], d[2]) = get(canvas, d[1], d[2])]_vars

-----------------------------------------------------------------------------
\* C23 as claimed: for every Continuous shape on a Chart of either range
\* mode, the row j = round(y_scale.linear(f(x))) as u32 of every normal
\* sample satisfies j <= height, so that figures never underflows in
\* height - j (and so never stops in the arithmetic panic).
C23_NoUnderflow ==
    /\ chart.kind = "ok" =>
          \A n \in 1 .. Len(chart.shapes) :
              chart.shapes[n][1].kind = "Continuous" =>
                  \A j \in ContinuousJ(chart, chart.shapes[n][1].f) :
                      j <= chart.height
    /\ ~(/\ chart.kind = "panicked"
         /\ Last.op \in {"figures", "to_string", "nice"})

-----------------------------------------------------------------------------
\* the dot row figures gives a sample with y = 0 (taken at x = xmin), and the
\* dot column it gives a sample with x = 0 (taken at y = ymin)
ZeroRow(ch) == DiscretePoints(ch, <<<<ch.xmin, 0>>>>)[1][2]
ZeroCol(ch) == DiscretePoints(ch, <<<<0, ch.ymin>>>>)[1][1]

\* C24 as claimed: whenever ymin <= 0 <= ymax, the horizontal axis that
\* axis() draws (every third dot of a row) lies on the dot row onto which
\* figures projects a sample with y = 0, and whenever xmin <= 0 <= xmax the
\* vertical axis lies on the dot column of a sample with x = 0.
C24_AxisOnZero ==
    (chart.kind = "ok" /\ hist # <<>> /\ Last.op = "axis") =>
        /\ (FLe(chart.ymin, 0) /\ FGe(chart.ymax, 0)) =>
              \A i \in 0 .. chart.width :
                  i % 3 = 0 => get(canvas, i, ZeroRow(chart))
        /\ (FLe(chart.xmin, 0) /\ FGe(chart.xmax, 0)) =>
              \A j \in 0 .. chart.height :
                  j % 3 = 0 => get(canvas, ZeroCol(chart), j)

-----------------------------------------------------------------------------
\* C25 as claimed: for a shape of any kind registered through linecolorplot
\* with colour c, every dot figures draws for it is written as a coloured dot
\* in c.  Taken where the shape is the only one of the Chart and figures has
\* just drawn it on the new canvas: every cell with a dot is coloured c.
C25_ColouredDots ==
    (/\ chart.kind = "ok"
     /\ Len(hist) = 3
     /\ hist[2].op = "linecolorplot"
     /\ hist[3].op = "figures") =>
        \A k \in DOMAIN canvas.chars :
            canvas.chars[k].mask # 0 =>
                /\ canvas.chars[k].colored
                /\ canvas.chars[k].color = hist[2].color

-----------------------------------------------------------------------------
\* C26 as claimed: in every Canvas state and for every dot (x, y) that is not
\* set, unset(x, y) changes nothing of the output: rows() and frame() return
\* the same before and after the call.
C26_UnsetNoOp ==
    [][(/\ Len(hist') = Len(hist) + 1
        /\ Last'.op = "unset"
        /\ ~get(canvas, Last'.x, Last'.y))
       => /\ rows(canvas') = rows(canvas)
          /\ frame(canvas') = frame(canvas)]_vars


\* C26 amended: unset(x, y) of a dot that is not set leaves every cell as it
\* was.  rows() and frame() return the same as before when the cell of the
\* dot lies within the extent rows() had; when it lies beyond, the output
\* grows to reach the cell, what it showed stays in place and the added
\* cells show as spaces.
C26_UnsetWithinExtent ==
    [][(/\ Len(hist') = Len(hist) + 1
        /\ Last'.op = "unset"
        /\ ~get(canvas, Last'.x, Last'.y))
       => LET k == CellKey(Last'.x, Last'.y)
              old == rows(canvas)
              new == rows(canvas')
          IN  /\ \A q \in DOMAIN canvas.chars :
                    Entry(canvas', q) = canvas.chars[q]
              /\ (k[1] <= maxrow(canvas) /\ k[2] <= maxcol(canvas)) =>
                    new = old /\ frame(canvas') = frame(canvas)
              /\ Len(new) = Max(Len(old), k[2] + 1)
              /\ \A y \in 1 .. Len(new) :
                    /\ Len(new[y]) = Max(Len(old[1]), k[1] + 1)
                    /\ \A x \in 1 .. Len(new[y]) :
                          new[y][x] = IF y <= Len(old) /\ x <= Len(old[1])
                                      THEN old[y][x]
                                      ELSE Glyph(DefaultCell)]_vars

\* set(0, 0), then unset(1, 0) of the dot beside it in the same cell: the
\* row still shows the one dot
C26_Witness ==
    /\ Len(hist) = 3
    /\ hist[2].op = "set" /\ hist[2].x = 0 /\ hist[2].y = 0
    /\ hist[3].op = "unset" /\ hist[3].x = 1 /\ hist[3].y = 0
    /\ ~get(canvas, 1, 0)
    /\ rows(canvas)[1][1] = [cp |-> 10241, fg |-> "none"]

====
